---- MODULE Spec2Model ----
(***************************************************************************)
(* Model of the dasy-csat-api document catalog: the filename parser of the *)
(* upload script, the Unicode normalizer, the catalog query service with   *)
(* its controller, the upload pipeline and the normalization repair run.   *)
(*                                                                         *)
(* Strings are sequences of UTF-16 code units (natural numbers).  The      *)
(* alphabet of the model is ASCII plus the Hangul syllables and the        *)
(* conjoining Hangul jamo; on that alphabet String.prototype.normalize is  *)
(* the algorithmic Hangul decomposition followed by composition.           *)
(***************************************************************************)
EXTENDS Integers, Sequences, FiniteSets, TLC

(***************************************************************************)
(* Bounds of the model.                                                    *)
(***************************************************************************)
MaxExtra == 1
MaxDocs == 4
MaxFiles == 3
MaxRuns == 2
MaxFaults == 1
MaxText == 3
MaxSubmissions == 2
MaxPartial == 3
MaxCalls == 4

(***************************************************************************)
(* Unicode Hangul constants (The Unicode Standard, section 3.12).          *)
(***************************************************************************)
SBase == 44032
LBase == 4352
VBase == 4449
TBase == 4519
LCount == 19
VCount == 21
TCount == 28
NCount == 588
SCount == 11172

(***************************************************************************)
(* ASCII code units used by the code.                                      *)
(***************************************************************************)
Underscore == 95
Space == 32
Slash == 47
Minus == 45
Plus == 43
Digit0 == 48
Comma == 44

IsSyllable(c) == c >= SBase /\ c < SBase + SCount
IsL(c) == c >= LBase /\ c < LBase + LCount
IsV(c) == c >= VBase /\ c < VBase + VCount
IsT(c) == c > TBase /\ c < TBase + TCount
IsLV(c) == IsSyllable(c) /\ (c - SBase) % TCount = 0

\* Canonical decomposition of one code unit.
DecomposeChar(c) ==
  IF IsSyllable(c)
  THEN LET si == c - SBase
           l == LBase + (si \div NCount)
           v == VBase + ((si % NCount) \div TCount)
           t == TBase + (si % TCount)
       IN IF t = TBase THEN <<l, v>> ELSE <<l, v, t>>
  ELSE <<c>>

RECURSIVE Decompose(_)
Decompose(s) ==
  IF s = <<>> THEN <<>> ELSE DecomposeChar(Head(s)) \o Decompose(Tail(s))

\* Canonical composition: acc is the composed prefix, s the rest.
RECURSIVE ComposeFrom(_, _)
ComposeFrom(acc, s) ==
  IF s = <<>> THEN acc
  ELSE LET c == Head(s)
           n == Len(acc)
           last == IF n = 0 THEN 0 ELSE acc[n]
       IN IF n > 0 /\ IsL(last) /\ IsV(c)
          THEN ComposeFrom(
                 [acc EXCEPT ![n] = SBase + ((last - LBase) * VCount + (c - VBase)) * TCount],
                 Tail(s))
          ELSE IF n > 0 /\ IsLV(last) /\ IsT(c)
          THEN ComposeFrom([acc EXCEPT ![n] = last + (c - TBase)], Tail(s))
          ELSE ComposeFrom(Append(acc, c), Tail(s))

\* A slip of the normalization: the text is left in the form it came in.
NFC_asGiven(s) == s

\* text.normalize('NFC')
NFC(s) == ComposeFrom(<<>>, Decompose(s))

\* A slip of the normalizer: the text is passed through unchanged.
normalizeKoreanText_identity(text) == text

\* normalizeKoreanText: falsy (empty) text is returned as is.
normalizeKoreanText(text) == IF text = <<>> THEN text ELSE NFC(text)

\* needsNormalization
needsNormalization(text) ==
  IF text = <<>> THEN FALSE ELSE text # normalizeKoreanText(text)

(***************************************************************************)
(* String helpers of the JavaScript runtime.                               *)
(***************************************************************************)
\* s.endsWith(suf)
EndsWith(s, suf) ==
  /\ Len(s) >= Len(suf)
  /\ SubSeq(s, Len(s) - Len(suf) + 1, Len(s)) = suf

\* s.split(sep): cur is the field being read, s the rest.
RECURSIVE SplitFrom(_, _, _)
SplitFrom(cur, s, sep) ==
  IF s = <<>> THEN <<cur>>
  ELSE IF Head(s) = sep
       THEN <<cur>> \o SplitFrom(<<>>, Tail(s), sep)
       ELSE SplitFrom(Append(cur, Head(s)), Tail(s), sep)

Split(s) == SplitFrom(<<>>, s, Underscore)
SplitComma(s) == SplitFrom(<<>>, s, Comma)

\* parts.join(sep)
RECURSIVE Join(_, _)
Join(parts, sep) ==
  IF parts = <<>> THEN <<>>
  ELSE IF Len(parts) = 1 THEN parts[1]
  ELSE parts[1] \o sep \o Join(Tail(parts), sep)

\* Decimal numeral of a natural number, then String(n) for an integer.
RECURSIVE NatToStr(_)
NatToStr(n) ==
  IF n < 10 THEN <<Digit0 + n>> ELSE Append(NatToStr(n \div 10), Digit0 + (n % 10))

IntToStr(n) == IF n < 0 THEN <<Minus>> \o NatToStr(0 - n) ELSE NatToStr(n)

\* Value of a digit in the given radix, or -1.
DigitVal(c, radix) ==
  LET v == IF c >= 48 /\ c <= 57 THEN c - 48
           ELSE IF c >= 97 /\ c <= 122 THEN c - 97 + 10
           ELSE IF c >= 65 /\ c <= 90 THEN c - 65 + 10
           ELSE 0 - 1
  IN IF v >= 0 /\ v < radix THEN v ELSE 0 - 1

RECURSIVE StripLeadingSpace(_)
StripLeadingSpace(s) ==
  IF s # <<>> /\ Head(s) = Space THEN StripLeadingSpace(Tail(s)) ELSE s

\* Longest prefix of digits: returns <<number of digits read, value>>.
RECURSIVE ReadDigits(_, _, _, _)
ReadDigits(s, radix, n, acc) ==
  IF s # <<>> /\ DigitVal(Head(s), radix) >= 0
  THEN ReadDigits(Tail(s), radix, n + 1, acc * radix + DigitVal(Head(s), radix))
  ELSE <<n, acc>>

NaN == [nan |-> TRUE, val |-> 0]
Num(v) == [nan |-> FALSE, val |-> v]

\* parseInt(s) without a radix argument.
parseInt(str) ==
  LET s0 == StripLeadingSpace(str)
      neg == s0 # <<>> /\ Head(s0) = Minus
      s1 == IF s0 # <<>> /\ Head(s0) \in {Minus, Plus} THEN Tail(s0) ELSE s0
      hex == Len(s1) >= 2 /\ s1[1] = Digit0 /\ s1[2] \in {120, 88}
      s2 == IF hex THEN Tail(Tail(s1)) ELSE s1
      r == ReadDigits(s2, IF hex THEN 16 ELSE 10, 0, 0)
  IN IF r[1] = 0 THEN NaN
     ELSE Num(IF neg THEN 0 - r[2] ELSE r[2])

\* parseInt(s, 10)
parseInt10(str) ==
  LET s0 == StripLeadingSpace(str)
      neg == s0 # <<>> /\ Head(s0) = Minus
      s1 == IF s0 # <<>> /\ Head(s0) \in {Minus, Plus} THEN Tail(s0) ELSE s0
      r == ReadDigits(s1, 10, 0, 0)
  IN IF r[1] = 0 THEN NaN
     ELSE Num(IF neg THEN 0 - r[2] ELSE r[2])

\* a < b in the order of Array.prototype.sort() without comparator
\* (lexicographic on code units).
RECURSIVE StrLess(_, _)
StrLess(a, b) ==
  IF b = <<>> THEN FALSE
  ELSE IF a = <<>> THEN TRUE
  ELSE IF Head(a) # Head(b) THEN Head(a) < Head(b)
  ELSE StrLess(Tail(a), Tail(b))

(***************************************************************************)
(* Closed vocabularies of the naming convention (code units).              *)
(***************************************************************************)
Go1 == <<44256, 49>>
Go2 == <<44256, 50>>
Go3 == <<44256, 51>>
Gugeo == <<44397, 50612>>
Suhak == <<49688, 54617>>
Yeongeo == <<50689, 50612>>
Hanguksa == <<54620, 44397, 49324>>
Sahoe == <<49324, 54924, 53456, 44396>>
Gwahak == <<44284, 54617, 53456, 44396>>
Jigeop == <<51649, 50629, 53456, 44396>>
Je2 == <<51228, 50, 50808, 44397, 50612>>
Suneung == <<49688, 45733>>
Hakpyeong == <<54617, 47141, 54217, 44032>>
Moui == <<47784, 51032, 44256, 49324>>
Pyeonggawon == <<54217, 44032, 50896>>
Gyoyukcheong == <<44368, 50977, 52397>>
Saseol == <<49324, 49444>>
Problem == <<112, 114, 111, 98, 108, 101, 109>>
Answer == <<97, 110, 115, 119, 101, 114>>
Explanation == <<101, 120, 112, 108, 97, 110, 97, 116, 105, 111, 110>>
DotPdf == <<46, 112, 100, 102>>
Nyeon == <<45380>>
Wol == <<50900>>

validGradeLevels == {Go1, Go2, Go3}
validCategories == {Gugeo, Suhak, Yeongeo, Hanguksa, Sahoe, Gwahak, Jigeop, Je2}
validExamTypes == {Suneung, Hakpyeong, Moui}
validSources == {Pyeonggawon, Gyoyukcheong, Saseol}
validDocTypes == {Problem, Answer, Explanation}

(***************************************************************************)
(* ExamFileUploader.parseFilename                                          *)
(***************************************************************************)
Null == [ok |-> FALSE]

\* Buffer.from(str, 'utf8').toString('utf8'): a lone surrogate becomes U+FFFD.
RECURSIVE ensureUTF8(_)
ensureUTF8(str) ==
  IF str = <<>> THEN <<>>
  ELSE LET c == Head(str)
       IN IF c >= 55296 /\ c <= 56319 /\ Len(str) >= 2
             /\ str[2] >= 56320 /\ str[2] <= 57343
          THEN <<c, str[2]>> \o ensureUTF8(Tail(Tail(str)))
          ELSE IF c >= 55296 /\ c <= 57343
          THEN <<65533>> \o ensureUTF8(Tail(str))
          ELSE <<c>> \o ensureUTF8(Tail(str))

\* Two slips of the layout decision: the double underscore read as the
\* 8-field layout, and the selection reading tried before the exam type.
ReadParts_noEmptySlot(parts) ==
  IF Len(parts) = 8 \/ parts[4] = <<>> \/ parts[4] \in validExamTypes
  THEN [selection |-> <<>>, examType |-> parts[4], examYear |-> parseInt(parts[5]),
        examMonth |-> parseInt(parts[6]), source |-> parts[7], docType |-> parts[8]]
  ELSE [selection |-> parts[4], examType |-> parts[5], examYear |-> parseInt(parts[6]),
        examMonth |-> parseInt(parts[7]), source |-> parts[8], docType |-> parts[9]]

ReadParts_alwaysSelection(parts) ==
  [selection |-> parts[4], examType |-> parts[5], examYear |-> parseInt(parts[6]),
   examMonth |-> parseInt(parts[7]), source |-> parts[8],
   docType |-> IF Len(parts) = 9 THEN parts[9] ELSE <<>>]

ReadParts_selectionFirst(parts) ==
  IF Len(parts) = 8
  THEN [selection |-> <<>>, examType |-> parts[4], examYear |-> parseInt(parts[5]),
        examMonth |-> parseInt(parts[6]), source |-> parts[7], docType |-> parts[8]]
  ELSE [selection |-> parts[4], examType |-> parts[5], examYear |-> parseInt(parts[6]),
        examMonth |-> parseInt(parts[7]), source |-> parts[8], docType |-> parts[9]]

\* The layout decision (lines 116-155): which parts are read as what.
\* parts are 1-based here: parts[i + 1] is the code's parts[i].
ReadParts(parts) ==
  IF Len(parts) = 8
  THEN [selection |-> <<>>, examType |-> parts[4], examYear |-> parseInt(parts[5]),
        examMonth |-> parseInt(parts[6]), source |-> parts[7], docType |-> parts[8]]
  ELSE IF parts[4] = <<>>
  THEN [selection |-> <<>>, examType |-> parts[5], examYear |-> parseInt(parts[6]),
        examMonth |-> parseInt(parts[7]), source |-> parts[8], docType |-> parts[9]]
  ELSE IF parts[4] \in validExamTypes
  THEN [selection |-> <<>>, examType |-> parts[4], examYear |-> parseInt(parts[5]),
        examMonth |-> parseInt(parts[6]), source |-> parts[7], docType |-> parts[8]]
  ELSE [selection |-> parts[4], examType |-> parts[5], examYear |-> parseInt(parts[6]),
        examMonth |-> parseInt(parts[7]), source |-> parts[8], docType |-> parts[9]]

\* The validation of the components (lines 178-196).
ComponentsValid_noDocType(gradeLevel, category, examType, source, docType, examYear, examMonth) ==
  /\ gradeLevel \in validGradeLevels
  /\ category \in validCategories
  /\ examType \in validExamTypes
  /\ source \in validSources
  /\ ~examYear.nan
  /\ ~examMonth.nan

ComponentsValid(gradeLevel, category, examType, source, docType, examYear, examMonth) ==
  /\ gradeLevel \in validGradeLevels
  /\ category \in validCategories
  /\ examType \in validExamTypes
  /\ source \in validSources
  /\ docType \in validDocTypes
  /\ ~examYear.nan
  /\ ~examMonth.nan

parseFilename(filename) ==
  IF ~EndsWith(filename, DotPdf) THEN Null
  ELSE
    LET name == SubSeq(filename, 1, Len(filename) - 4)
        parts == Split(name)
    IN IF Len(parts) < 8 \/ Len(parts) > 9 THEN Null
       ELSE
         LET r == ReadParts(parts)
             normalizedGradeLevel == NFC(parts[1])
             normalizedCategory == NFC(parts[2])
             normalizedExamType == NFC(r.examType)
             normalizedSource == NFC(r.source)
             normalizedDocType == NFC(r.docType)
             normalizedSubject == NFC(parts[3])
             normalizedSelection == NFC(r.selection)
         IN IF ~ComponentsValid(normalizedGradeLevel, normalizedCategory,
                                normalizedExamType, normalizedSource,
                                normalizedDocType, r.examYear, r.examMonth)
            THEN Null
            ELSE [ok |-> TRUE,
                  grade_level |-> ensureUTF8(normalizedGradeLevel),
                  category |-> ensureUTF8(normalizedCategory),
                  subject |-> ensureUTF8(normalizedSubject),
                  selection |-> ensureUTF8(normalizedSelection),
                  exam_type |-> ensureUTF8(normalizedExamType),
                  exam_year |-> r.examYear.val,
                  exam_month |-> r.examMonth.val,
                  source |-> ensureUTF8(normalizedSource),
                  doc_type |-> ensureUTF8(normalizedDocType),
                  filename |-> filename]

\* A slip of the title: the selection is put in whether or not it is empty.
generateTitle_alwaysSelection(metadata) ==
  metadata.grade_level \o <<Space>> \o metadata.category \o <<Space>>
  \o metadata.subject \o <<Space>> \o metadata.selection \o <<Space>> \o metadata.exam_type
  \o <<Space>> \o IntToStr(metadata.exam_year) \o Nyeon
  \o <<Space>> \o IntToStr(metadata.exam_month) \o Wol
  \o <<Space>> \o metadata.source

\* generateTitle
generateTitle(metadata) ==
  LET selectionText == IF metadata.selection # <<>>
                       THEN <<Space>> \o metadata.selection ELSE <<>>
  IN metadata.grade_level \o <<Space>> \o metadata.category \o <<Space>>
     \o metadata.subject \o selectionText \o <<Space>> \o metadata.exam_type
     \o <<Space>> \o IntToStr(metadata.exam_year) \o Nyeon
     \o <<Space>> \o IntToStr(metadata.exam_month) \o Wol
     \o <<Space>> \o metadata.source

\* generateStoragePath
generateStoragePath(metadata) ==
  LET selectionPath == IF metadata.selection # <<>>
                       THEN <<Slash>> \o metadata.selection ELSE <<>>
  IN <<101, 120, 97, 109, 115, Slash>> \o metadata.grade_level
     \o <<Slash>> \o metadata.category \o <<Slash>> \o metadata.subject
     \o selectionPath \o <<Slash>> \o IntToStr(metadata.exam_year)
     \o <<Slash>> \o IntToStr(metadata.exam_month) \o <<Slash>> \o metadata.source
     \o <<Slash>> \o metadata.doc_type \o DotPdf

\* ThumbnailGenerator.processDocument: the key the PDF of a document is
\* downloaded from, `documents/${documentId}.pdf`.
pdfS3Key(documentId) ==
  <<100, 111, 99, 117, 109, 101, 110, 116, 115, Slash>> \o IntToStr(documentId) \o DotPdf

\* generateNewFilename, the build step: parts.join("_") + ".pdf"
BuildFilename(rec) ==
  Join(<<rec.grade_level, rec.category, rec.subject, rec.selection,
         rec.exam_type, IntToStr(rec.exam_year), IntToStr(rec.exam_month),
         rec.source, rec.doc_type>>, <<Underscore>>) \o DotPdf

(***************************************************************************)
(* Document rows.  uploadToSupabase builds the row of a parsed file.       *)
(***************************************************************************)
MakeRow(metadata, storagePath, id, now) ==
  [id |-> id,
   title |-> generateTitle(metadata),
   subject |-> metadata.subject,
   filename |-> metadata.filename,
   storage_path |-> storagePath,
   correct_answers |-> <<>>,
   question_scores |-> <<>>,
   created_at |-> now,
   category |-> metadata.category,
   source |-> metadata.source,
   grade_level |-> metadata.grade_level,
   exam_year |-> metadata.exam_year,
   exam_month |-> metadata.exam_month,
   exam_type |-> metadata.exam_type,
   selection |-> metadata.selection]

TextFields == {"title", "subject", "category", "exam_type", "selection",
               "grade_level", "source"}

(***************************************************************************)
(* The metadata store (PostgREST query builder) as the service uses it.    *)
(***************************************************************************)
\* .in(col, vals) on a text column
SelectIn(rows, col, vals) ==
  SelectSeq(rows, LAMBDA r : \E i \in 1..Len(vals) : r[col] = vals[i])

\* .in(col, vals) on an integer column; vals are JavaScript numbers
SelectInNum(rows, col, vals) ==
  SelectSeq(rows, LAMBDA r : \E i \in 1..Len(vals) :
                               ~vals[i].nan /\ vals[i].val = r[col])

\* .eq(col, val)
SelectEq(rows, col, val) == SelectSeq(rows, LAMBDA r : r[col] = val)

\* .order('created_at', { ascending: false })
RECURSIVE InsertByCreatedAt(_, _)
InsertByCreatedAt(r, sorted) ==
  IF sorted = <<>> THEN <<r>>
  ELSE IF r.created_at > Head(sorted).created_at THEN <<r>> \o sorted
  ELSE <<Head(sorted)>> \o InsertByCreatedAt(r, Tail(sorted))

RECURSIVE OrderByCreatedAtDesc(_)
OrderByCreatedAtDesc(rows) ==
  IF rows = <<>> THEN <<>>
  ELSE InsertByCreatedAt(Head(rows), OrderByCreatedAtDesc(Tail(rows)))

\* Outcomes of one request to the store: it answers, or fails with a message.
StoreOutcomes == {"ok", "timeout", "permission denied"}

Ok(data) == [status |-> "ok", data |-> data]
Throw(message) == [status |-> "error", message |-> message]

(***************************************************************************)
(* DocumentsService                                                        *)
(***************************************************************************)
\* text.trim()
RECURSIVE StripTrailingSpace(_)
StripTrailingSpace(s) ==
  IF s # <<>> /\ s[Len(s)] = Space
  THEN StripTrailingSpace(SubSeq(s, 1, Len(s) - 1)) ELSE s

Trim(s) == StripTrailingSpace(StripLeadingSpace(s))

\* A slip of the trimming: one space is removed at each end, not every one.
normalizeInput_trimOne(text) ==
  LET s1 == IF text # <<>> /\ Head(text) = Space THEN Tail(text) ELSE text
      s2 == IF s1 # <<>> /\ s1[Len(s1)] = Space THEN SubSeq(s1, 1, Len(s1) - 1) ELSE s1
  IN IF text = <<>> THEN text ELSE NFC(s2)

\* normalizeInput: text.trim().normalize('NFC')
normalizeInput(text) == IF text = <<>> THEN text ELSE NFC(Trim(text))

MapNormalize(vals) == [i \in 1..Len(vals) |-> normalizeKoreanText(vals[i])]

Absent == [present |-> FALSE, vals |-> <<>>]
Given(vals) == [present |-> TRUE, vals |-> vals]

getAllDocuments(rows, store) ==
  IF store # "ok"
  THEN Throw(<<"Error fetching documents", "Failed to fetch documents", store>>)
  ELSE Ok(OrderByCreatedAtDesc(rows))

\* A slip of the query: a year list that is present is applied even when empty.
FilterQuery_emptyYears(rows, filters) ==
  LET q1 == IF filters.grade_levels.present /\ Len(filters.grade_levels.vals) > 0
            THEN SelectIn(rows, "grade_level", MapNormalize(filters.grade_levels.vals))
            ELSE rows
      q2 == IF filters.categories.present /\ Len(filters.categories.vals) > 0
            THEN SelectIn(q1, "category", MapNormalize(filters.categories.vals))
            ELSE q1
      q3 == IF filters.exam_years.present
            THEN SelectInNum(q2, "exam_year", filters.exam_years.vals)
            ELSE q2
      q4 == IF filters.exam_months.present /\ Len(filters.exam_months.vals) > 0
            THEN SelectInNum(q3, "exam_month", filters.exam_months.vals)
            ELSE q3
  IN OrderByCreatedAtDesc(q4)

\* A slip of the query: the month constraint is never added.
FilterQuery_noMonths(rows, filters) ==
  LET q1 == IF filters.grade_levels.present /\ Len(filters.grade_levels.vals) > 0
            THEN SelectIn(rows, "grade_level", MapNormalize(filters.grade_levels.vals))
            ELSE rows
      q2 == IF filters.categories.present /\ Len(filters.categories.vals) > 0
            THEN SelectIn(q1, "category", MapNormalize(filters.categories.vals))
            ELSE q1
      q3 == IF filters.exam_years.present /\ Len(filters.exam_years.vals) > 0
            THEN SelectInNum(q2, "exam_year", filters.exam_years.vals)
            ELSE q2
  IN OrderByCreatedAtDesc(q3)

\* The rows selected by the query of getDocumentsWithFilters.
FilterQuery(rows, filters) ==
  LET q1 == IF filters.grade_levels.present /\ Len(filters.grade_levels.vals) > 0
            THEN SelectIn(rows, "grade_level", MapNormalize(filters.grade_levels.vals))
            ELSE rows
      q2 == IF filters.categories.present /\ Len(filters.categories.vals) > 0
            THEN SelectIn(q1, "category", MapNormalize(filters.categories.vals))
            ELSE q1
      q3 == IF filters.exam_years.present /\ Len(filters.exam_years.vals) > 0
            THEN SelectInNum(q2, "exam_year", filters.exam_years.vals)
            ELSE q2
      q4 == IF filters.exam_months.present /\ Len(filters.exam_months.vals) > 0
            THEN SelectInNum(q3, "exam_month", filters.exam_months.vals)
            ELSE q3
  IN OrderByCreatedAtDesc(q4)

getDocumentsWithFilters(rows, filters, store) ==
  IF store # "ok"
  THEN Throw(<<"Error fetching documents with filters",
               "Failed to fetch documents with filters", store>>)
  ELSE Ok(FilterQuery(rows, filters))

\* [...new Set(values)]: first occurrences, in order.
RECURSIVE Dedup(_)
Dedup(vals) ==
  IF vals = <<>> THEN <<>>
  ELSE LET init == Dedup(SubSeq(vals, 1, Len(vals) - 1))
           x == vals[Len(vals)]
       IN IF \E i \in 1..Len(init) : init[i] = x THEN init ELSE Append(init, x)

\* A slip of the comparators: the years compared as (a, b) => a - b.
Before_yearsAscending(a, b, order) ==
  CASE order = "text" -> StrLess(a, b)
    [] order = "desc" -> a < b
    [] order = "asc" -> a < b

\* The comparators of the three sorts of getAvailableFilterValues.
Before(a, b, order) ==
  CASE order = "text" -> StrLess(a, b)
    [] order = "desc" -> a > b
    [] order = "asc" -> a < b

RECURSIVE InsertSorted(_, _, _)
InsertSorted(x, sorted, order) ==
  IF sorted = <<>> THEN <<x>>
  ELSE IF Before(x, Head(sorted), order) THEN <<x>> \o sorted
  ELSE <<Head(sorted)>> \o InsertSorted(x, Tail(sorted), order)

RECURSIVE Sort(_, _)
Sort(vals, order) ==
  IF vals = <<>> THEN <<>>
  ELSE InsertSorted(vals[Len(vals)], Sort(SubSeq(vals, 1, Len(vals) - 1), order), order)

Column(docs, col) == [i \in 1..Len(docs) |-> docs[i][col]]

getAvailableFilterValues(rows, store) ==
  LET all == getAllDocuments(rows, store)
  IN IF all.status # "ok"
     THEN Throw(<<"Error fetching available filter values">> \o all.message)
     ELSE
       LET documents == all.data
       IN Ok([grade_levels |->
                Sort(Dedup(MapNormalize(Column(documents, "grade_level"))), "text"),
              categories |->
                Sort(Dedup(MapNormalize(Column(documents, "category"))), "text"),
              exam_years |-> Sort(Dedup(Column(documents, "exam_year")), "desc"),
              exam_months |-> Sort(Dedup(Column(documents, "exam_month")), "asc")])

getDocumentsByCategory(rows, category, store) ==
  IF store # "ok"
  THEN Throw(<<"Error fetching documents by category",
               "Failed to fetch documents by category", store>>)
  ELSE Ok(OrderByCreatedAtDesc(SelectEq(rows, "category", normalizeKoreanText(category))))

getDocumentsBySubject(rows, subject, store) ==
  IF store # "ok"
  THEN Throw(<<"Error fetching documents by subject",
               "Failed to fetch documents by subject", store>>)
  ELSE Ok(OrderByCreatedAtDesc(SelectEq(rows, "subject", normalizeKoreanText(subject))))

\* .single() fails unless exactly one row is selected.
\* null as a document
NullDocument == [id |-> 0]

\* A slip of the lookup: no row is an answer (maybeSingle), not an error.
getDocumentById_maybeSingle(rows, id, store) ==
  LET hit == SelectEq(rows, "id", id)
  IN IF store # "ok"
     THEN Throw(<<"Error fetching document", "Failed to fetch document", store>>)
     ELSE IF Len(hit) = 0 THEN Ok(NullDocument) ELSE Ok(hit[1])

getDocumentById(rows, id, store) ==
  LET hit == SelectEq(rows, "id", id)
  IN IF store # "ok"
     THEN Throw(<<"Error fetching document", "Failed to fetch document", store>>)
     ELSE IF Len(hit) # 1
     THEN Throw(<<"Error fetching document", "Failed to fetch document",
                  "JSON object requested, multiple (or no) rows returned">>)
     ELSE Ok(hit[1])

(***************************************************************************)
(* DocumentsController: one operator per route, from the request and the   *)
(* outcome of the store to the response envelope.                          *)
(***************************************************************************)
NoParam == [present |-> FALSE, val |-> <<>>]
Param(val) == [present |-> TRUE, val |-> val]

\* if (p) { p.split(',').map(x => x.trim()) }
DecodeText(p) ==
  IF p.present /\ p.val # <<>>
  THEN LET parts == SplitComma(p.val)
       IN Given([i \in 1..Len(parts) |-> Trim(parts[i])])
  ELSE Absent

\* if (p) { p.split(',').map(x => parseInt(x.trim(), 10)) }
DecodeNumbers(p) ==
  IF p.present /\ p.val # <<>>
  THEN LET parts == SplitComma(p.val)
       IN Given([i \in 1..Len(parts) |-> parseInt10(Trim(parts[i]))])
  ELSE Absent

DecodeQuery(q) ==
  [grade_levels |-> DecodeText(q.grade_levels),
   categories |-> DecodeText(q.categories),
   exam_years |-> DecodeNumbers(q.exam_years),
   exam_months |-> DecodeNumbers(q.exam_months)]

ListEnvelope(res) ==
  IF res.status = "ok"
  THEN [success |-> TRUE, data |-> res.data, count |-> Len(res.data)]
  ELSE [success |-> FALSE, data |-> <<>>, count |-> 0]

RouteGetAllDocuments(rows, store) == ListEnvelope(getAllDocuments(rows, store))

RouteGetDocumentsWithFilters(rows, q, store) ==
  ListEnvelope(getDocumentsWithFilters(rows, DecodeQuery(q), store))

RouteGetAvailableFilterValues(rows, store) ==
  LET res == getAvailableFilterValues(rows, store)
  IN IF res.status = "ok"
     THEN [success |-> TRUE,
           data |-> [gradeLevels |-> res.data.grade_levels,
                     categories |-> res.data.categories,
                     examYears |-> res.data.exam_years,
                     examMonths |-> res.data.exam_months]]
     ELSE [success |-> FALSE,
           data |-> [gradeLevels |-> <<>>, categories |-> <<>>,
                     examYears |-> <<>>, examMonths |-> <<>>]]

RouteGetAvailableCategories(rows, store) ==
  LET res == getAllDocuments(rows, store)
  IN IF res.status = "ok"
     THEN [success |-> TRUE, data |-> Dedup(Column(res.data, "exam_type"))]
     ELSE [success |-> FALSE, data |-> <<>>]

RouteGetAvailableSubjects(rows, store) ==
  LET res == getAllDocuments(rows, store)
  IN IF res.status = "ok"
     THEN [success |-> TRUE, data |-> Dedup(Column(res.data, "subject"))]
     ELSE [success |-> FALSE, data |-> <<>>]

RouteDebugCategories(rows, store) ==
  LET res == getAllDocuments(rows, store)
  IN IF res.status = "ok"
     THEN [success |-> TRUE,
           data |-> [i \in 1..Len(res.data) |->
                       [id |-> res.data[i].id,
                        category |-> res.data[i].category,
                        exam_type |-> res.data[i].exam_type,
                        categoryLength |-> Len(res.data[i].category)]]]
     ELSE [success |-> FALSE, data |-> [error |-> res.message]]

RouteGetDocumentsByCategory(rows, category, store) ==
  LET res == getDocumentsByCategory(rows, category, store)
  IN IF res.status = "ok"
     THEN [success |-> TRUE, data |-> res.data, count |-> Len(res.data),
           debug |-> <<"Searched for category", category, "found", Len(res.data)>>]
     ELSE [success |-> FALSE, data |-> <<>>, count |-> 0,
           debug |-> <<"Error">> \o res.message]

RouteGetDocumentsBySubject(rows, subject, store) ==
  ListEnvelope(getDocumentsBySubject(rows, subject, store))

RouteGetDocumentById(rows, id, store) ==
  LET res == getDocumentById(rows, id, store)
  IN IF res.status = "ok"
     THEN [success |-> TRUE, data |-> res.data]
     ELSE [success |-> FALSE, data |-> NullDocument]

(***************************************************************************)
(* The upload script's file system helpers.                                *)
(***************************************************************************)
DataPath == <<100>>

\* path.join(dataPath, file)
PathJoin(dir, file) == dir \o <<Slash>> \o file

\* path.basename(filePath): what follows the last '/'
RECURSIVE Basename(_)
Basename(path) ==
  IF \E i \in 1..Len(path) : path[i] = Slash
  THEN Basename(Tail(path))
  ELSE path

\* files.filter(file => file.endsWith('.pdf')).map(file => path.join(dataPath, file))
PdfFilesOf(files) ==
  LET pdf == SelectSeq(files, LAMBDA f : EndsWith(f, DotPdf))
  IN [i \in 1..Len(pdf) |-> PathJoin(DataPath, pdf[i])]

(***************************************************************************)
(* The repair run on one row: the updates fixAllDocuments collects.        *)
(***************************************************************************)
FieldsToFix_noTitle(doc) ==
  { f \in TextFields \ {"title"} : doc[f] # <<>> /\ needsNormalization(doc[f]) }

FieldsToFix(doc) == { f \in TextFields : doc[f] # <<>> /\ needsNormalization(doc[f]) }

ApplyFix(doc) ==
  LET fix == FieldsToFix(doc)
  IN [f \in DOMAIN doc |-> IF f \in fix THEN normalizeKoreanText(doc[f]) ELSE doc[f]]

(***************************************************************************)
(* State.                                                                  *)
(***************************************************************************)
VARIABLES
  pc,           \* position of the script or request being modelled
  rec,          \* the metadata record a filename is built from (NoRec if none)
  fname,        \* the filename handed to parseFilename
  parsed,       \* what parseFilename returned (processFile's metadata)
  catalog,      \* the documents table, rows in insertion order
  call,         \* the last call to the catalog service: arguments and result
  resp,         \* the last response envelope of the controller
  blobs,        \* the object store: key -> name of the file whose bytes it holds
  dataDir,      \* DATA_PATH: whether the directory exists and the names in it
  faults,       \* number of requests the stores have rejected so far
  pdfFiles,     \* uploadAllFiles: the paths of the batch
  idx,          \* uploadAllFiles: index of the file in process
  successCount, \* uploadAllFiles: the counter of the summary
  skipped,      \* number of "Skipping invalid filename" lines logged in the run
  storagePath,  \* processFile: the storage path of the file in process
  nextId,       \* the next fresh identifier (crypto.randomUUID) and clock tick
  uploadedIds,  \* ids of the rows written by the upload pipeline
  storeFailed,  \* whether a store rejected a write in the current upload run
  rowsAtStart,  \* number of rows when the current upload run started
  runs,         \* number of script runs (upload or repair) started
  lastFix,      \* summary of the last repair run
  argv,         \* cleanup: the arguments of the command line
  configured,   \* cleanup: whether the connection settings are in the environment
  objects,      \* deleteFromS3: the keys listed under the prefix
  batchStart,   \* deleteFromS3: i, the index the next batch starts at
  deletedCount, \* deleteFromS3: the counter of the loop
  s3Deleted,    \* cleanup: what deleteFromS3 returned
  supabaseDeleted, \* cleanup: what deleteFromSupabase returned
  submissions,  \* the document_submissions table, rows in insertion order
  data,         \* processSubmission: the SubmissionData in process
  submissionId, \* processSubmission: the id uploadSubmissionToSupabase returned
  supabaseClient, \* supabase-client.ts: the module's client (0 for null)
  supabase,     \* SupabaseService: the client of the service (0 before onModuleInit)
  clients,      \* the clients createClient has returned, each with its caller
  document,     \* processDocument: the id of the document in process
  blobsAtStart, \* the object store as it was when processDocument was called
  cwd,          \* rename script: the files of the current directory
  oldFiles,     \* renameFiles: files, the sorted list of names read at the start
  answer        \* renameFiles: what was typed at the prompt

parserVars == <<rec, fname, parsed>>
apiVars == <<call, resp>>
uploadVars == <<blobs, dataDir, faults, pdfFiles, idx, successCount, skipped, storagePath, nextId,
                uploadedIds, storeFailed, rowsAtStart, runs, lastFix>>
cleanupVars == <<argv, configured, objects, batchStart, deletedCount, s3Deleted,
                 supabaseDeleted>>
submissionVars == <<submissions, data, submissionId>>
clientVars == <<supabaseClient, supabase, clients>>
thumbnailVars == <<document, blobsAtStart>>
renameVars == <<cwd, oldFiles, answer>>
toolVars == <<submissionVars, clientVars, thumbnailVars, renameVars>>
vars == <<pc, rec, fname, parsed, catalog, call, resp, blobs, dataDir, faults,
          pdfFiles, idx,
          successCount, skipped, storagePath, nextId, uploadedIds, storeFailed,
          rowsAtStart, runs, lastFix,
          argv, configured, objects, batchStart, deletedCount, s3Deleted, supabaseDeleted,
          submissions, data, submissionId, supabaseClient, supabase, clients,
          document, blobsAtStart, cwd, oldFiles, answer>>

NoRec == [ok |-> FALSE]
NoCall == [route |-> "none"]
NoResp == [success |-> FALSE, none |-> TRUE]
NoFix == [checked |-> 0, withIssues |-> 0, fixed |-> 0]
NoDir == [exists |-> FALSE, files |-> <<>>]

CleanupIdle ==
  /\ argv = <<>>
  /\ configured = TRUE
  /\ objects = <<>>
  /\ batchStart = 0
  /\ deletedCount = 0
  /\ s3Deleted = 0
  /\ supabaseDeleted = 0

NoScore == [given |-> FALSE, val |-> 0]
NoData == [user_id |-> 0, document_id |-> 0, score |-> NoScore, filePath |-> <<>>]

SubmissionIdle ==
  /\ submissions = <<>>
  /\ data = NoData
  /\ submissionId = 0

ClientIdle ==
  /\ supabaseClient = 0
  /\ supabase = 0
  /\ clients = {}

ThumbnailIdle ==
  /\ document = 0
  /\ blobsAtStart = {}

RenameIdle ==
  /\ cwd = {}
  /\ oldFiles = <<>>
  /\ answer = <<>>

ToolsIdle ==
  /\ SubmissionIdle
  /\ ClientIdle
  /\ ThumbnailIdle
  /\ RenameIdle

ParserIdle == rec = NoRec /\ fname = <<>> /\ parsed = Null
ApiIdle == call = NoCall /\ resp = NoResp
UploadIdle ==
  /\ blobs = {}
  /\ dataDir = NoDir
  /\ faults = 0
  /\ pdfFiles = <<>>
  /\ idx = 0
  /\ successCount = 0
  /\ skipped = 0
  /\ storagePath = <<>>
  /\ nextId = 10
  /\ uploadedIds = {}
  /\ storeFailed = FALSE
  /\ rowsAtStart = 0
  /\ runs = 0
  /\ lastFix = NoFix

(***************************************************************************)
(* Inputs of the parser specification.                                     *)
(***************************************************************************)
Giha == <<44592, 54616>>
X == <<120>>
Y2024 == <<50, 48, 50, 52>>

GradeIn == {Go3, Decompose(Go1), X}
CatIn == {Gugeo, X}
SubjIn == {Gugeo, Decompose(Giha)}
SelIn == {<<>>, Giha, Decompose(Giha), Suneung, Decompose(Suneung)}
TypeIn == {Moui, Decompose(Suneung), X}
YearIn == {Y2024, Y2024 \o X, X}
MonthIn == {<<54>>, <<49, 49, 120>>, X}
SrcIn == {Saseol, X}
DocIn == {Answer, X}

Base9 == { <<g, c, s, sel, e, y, m, src, d>> :
             g \in GradeIn, c \in CatIn, s \in SubjIn, sel \in SelIn, e \in TypeIn,
             y \in YearIn, m \in MonthIn, src \in SrcIn, d \in DocIn }
Base8 == { <<g, c, s, e, y, m, src, d>> :
             g \in GradeIn, c \in CatIn, s \in SubjIn, e \in TypeIn,
             y \in YearIn, m \in MonthIn, src \in SrcIn, d \in DocIn }
Base == Base8 \cup Base9

\* t followed by k more fields
RECURSIVE Extend(_, _)
Extend(t, k) == IF k = 0 THEN t ELSE Extend(Append(t, X), k - 1)

PartsIn ==
  { Extend(t, k) : t \in Base, k \in 0..MaxExtra }
  \cup { SubSeq(t, 1, Len(t) - 1) : t \in Base }

FilenameInputs ==
  { Join(t, <<Underscore>>) \o DotPdf : t \in PartsIn }
  \cup { Join(t, <<Underscore>>) : t \in Base }

Records ==
  [ok : {TRUE},
   grade_level : {Go3, Go1},
   category : {Gugeo, Je2},
   subject : {Gugeo, Decompose(Giha), <<97, Underscore, 98>>, <<>>},
   selection : {<<>>, Giha, Decompose(Giha), Suneung},
   exam_type : {Suneung, Moui},
   exam_year : {2024, 0 - 3},
   exam_month : {6, 11},
   source : {Pyeonggawon, Saseol},
   doc_type : {Problem, Explanation}]

(***************************************************************************)
(* The parser specification: a filename, given or built from a record, is  *)
(* parsed.                                                                 *)
(***************************************************************************)
ParseInit ==
  /\ parsed = Null
  /\ \/ /\ fname \in FilenameInputs
        /\ rec = NoRec
        /\ pc = "ready"
     \/ /\ rec \in Records
        /\ fname = <<>>
        /\ pc = "record"
  /\ catalog = <<>>
  /\ ApiIdle
  /\ UploadIdle
  /\ CleanupIdle
  /\ ToolsIdle

Build ==
  /\ pc = "record"
  /\ fname' = BuildFilename(rec)
  /\ pc' = "ready"
  /\ UNCHANGED <<rec, parsed, catalog, apiVars, uploadVars, cleanupVars, toolVars>>

Parse ==
  /\ pc = "ready"
  /\ parsed' = parseFilename(fname)
  /\ pc' = "parsed"
  /\ UNCHANGED <<rec, fname, catalog, apiVars, uploadVars, cleanupVars, toolVars>>

\* uploadToSupabase on the record of an accepted filename, the store
\* accepting the row: the title is generated and the row written.
WriteRow ==
  /\ pc = "parsed"
  /\ parsed # Null
  /\ catalog' = Append(catalog, MakeRow(parsed, generateStoragePath(parsed), nextId, nextId))
  /\ pc' = "row"
  /\ UNCHANGED <<parserVars, apiVars, uploadVars, cleanupVars, toolVars>>

ParseNext == Build \/ Parse \/ WriteRow

SpecParse == ParseInit /\ [][ParseNext]_vars

(***************************************************************************)
(* Inputs of the catalog specification: the rows the table may hold, the   *)
(* filter structures and the request parameters.                           *)
(***************************************************************************)
Meta(g, c, s, sel, e, y, m, src, d) ==
  LET r == [ok |-> TRUE, grade_level |-> g, category |-> c, subject |-> s,
            selection |-> sel, exam_type |-> e, exam_year |-> y, exam_month |-> m,
            source |-> src, doc_type |-> d]
  IN [f \in DOMAIN r \cup {"filename"} |->
        IF f = "filename" THEN BuildFilename(r) ELSE r[f]]

\* The row the upload pipeline writes for a file.
RowOf(meta, id) == MakeRow(meta, generateStoragePath(meta), id, id)

\* A row written before the parser normalized: its text is decomposed.
LegacyRowOf(meta, id) ==
  LET r == RowOf(meta, id)
  IN [f \in DOMAIN r |->
        IF f \in TextFields \cup {"filename"} THEN Decompose(r[f]) ELSE r[f]]

RowPool ==
  << RowOf(Meta(Go3, Gugeo, Gugeo, <<>>, Suneung, 2024, 11, Pyeonggawon, Problem), 1),
     RowOf(Meta(Go1, Yeongeo, Yeongeo, <<>>, Hakpyeong, 2022, 6, Gyoyukcheong, Answer), 2),
     RowOf(Meta(Go3, Suhak, Suhak, Giha, Moui, 2024, 6, Saseol, Problem), 3),
     RowOf(Meta(Go2, Gugeo, Gugeo, <<>>, Suneung, 2023, 11, Pyeonggawon, Problem), 4),
     LegacyRowOf(Meta(Go3, Gugeo, Giha, <<>>, Suneung, 2024, 9, Pyeonggawon, Answer), 5) >>

Catalogs ==
  { SelectSeq(RowPool, LAMBDA r : r.id \in ids) :
      ids \in { S \in SUBSET (1..Len(RowPool)) : Cardinality(S) <= MaxDocs } }

FilterInputs ==
  [grade_levels : {Absent, Given(<<>>), Given(<<Go3>>), Given(<<Decompose(Go3), Go2>>)},
   categories : {Absent, Given(<<>>), Given(<<Gugeo, Suhak>>), Given(<<Decompose(Gugeo)>>)},
   exam_years : {Absent, Given(<<>>), Given(<<Num(2023)>>), Given(<<Num(2024), Num(2022)>>)},
   exam_months : {Absent, Given(<<Num(11)>>), Given(<<Num(6), Num(9)>>)}]

QueryInputs ==
  [grade_levels : {NoParam, Param(<<>>), Param(Go3 \o <<Comma, Space>> \o Decompose(Go2))},
   categories : {NoParam, Param(Decompose(Gugeo) \o <<Comma>> \o Suhak)},
   exam_years : {NoParam, Param(<<>>), Param(Y2024 \o <<Comma>> \o X),
                 Param(<<Space>> \o Y2024 \o <<Comma, 50, 48, 50, 51>>)},
   exam_months : {NoParam, Param(<<49, 49>>), Param(X)}]

TextInputs == {Gugeo, Decompose(Gugeo), Giha, Decompose(Giha), Suhak, <<>>, X}
IdInputs == 1..(Len(RowPool) + 1)

(***************************************************************************)
(* The catalog specification: requests against a table.  The service       *)
(* methods are called directly (Svc...) or through the controller          *)
(* (Route...); each request meets a store that answers or fails.           *)
(***************************************************************************)
ApiInit ==
  /\ pc = "serving"
  /\ catalog \in Catalogs
  /\ ParserIdle
  /\ ApiIdle
  /\ UploadIdle
  /\ CleanupIdle
  /\ ToolsIdle

\* A request is taken when none is in progress; it leaves its response.
Serving == pc = "serving"

Served ==
  /\ pc' = "responded"
  /\ UNCHANGED <<catalog, parserVars, uploadVars, cleanupVars, toolVars>>

\* The response is sent and the next request may come.
NextRequest ==
  /\ pc = "responded"
  /\ pc' = "serving"
  /\ call' = NoCall
  /\ resp' = NoResp
  /\ UNCHANGED <<catalog, parserVars, uploadVars, cleanupVars, toolVars>>

SvcGetDocumentsWithFilters ==
  /\ Serving
  /\ \E filters \in FilterInputs, store \in StoreOutcomes :
       /\ call' = [route |-> "svc.filtered", filters |-> filters, store |-> store,
                   result |-> getDocumentsWithFilters(catalog, filters, store)]
       /\ resp' = NoResp
       /\ Served

SvcGetAvailableFilterValues ==
  /\ Serving
  /\ \E store \in StoreOutcomes :
       /\ call' = [route |-> "svc.available", store |-> store,
                   result |-> getAvailableFilterValues(catalog, store)]
       /\ resp' = NoResp
       /\ Served

SvcGetDocumentsByCategory ==
  /\ Serving
  /\ \E category \in TextInputs, store \in StoreOutcomes :
       /\ call' = [route |-> "svc.category", arg |-> category, store |-> store,
                   result |-> getDocumentsByCategory(catalog, category, store)]
       /\ resp' = NoResp
       /\ Served

SvcGetDocumentsBySubject ==
  /\ Serving
  /\ \E subject \in TextInputs, store \in StoreOutcomes :
       /\ call' = [route |-> "svc.subject", arg |-> subject, store |-> store,
                   result |-> getDocumentsBySubject(catalog, subject, store)]
       /\ resp' = NoResp
       /\ Served

GetAllDocumentsRoute ==
  /\ Serving
  /\ \E store \in StoreOutcomes :
       /\ call' = [route |-> "all", store |-> store]
       /\ resp' = RouteGetAllDocuments(catalog, store)
       /\ Served

GetDocumentsWithFiltersRoute ==
  /\ Serving
  /\ \E q \in QueryInputs, store \in StoreOutcomes :
       /\ call' = [route |-> "filtered", query |-> q, filters |-> DecodeQuery(q),
                   store |-> store]
       /\ resp' = RouteGetDocumentsWithFilters(catalog, q, store)
       /\ Served

GetAvailableFilterValuesRoute ==
  /\ Serving
  /\ \E store \in StoreOutcomes :
       /\ call' = [route |-> "available", store |-> store]
       /\ resp' = RouteGetAvailableFilterValues(catalog, store)
       /\ Served

GetAvailableCategoriesRoute ==
  /\ Serving
  /\ \E store \in StoreOutcomes :
       /\ call' = [route |-> "categories.list", store |-> store]
       /\ resp' = RouteGetAvailableCategories(catalog, store)
       /\ Served

GetAvailableSubjectsRoute ==
  /\ Serving
  /\ \E store \in StoreOutcomes :
       /\ call' = [route |-> "subjects.list", store |-> store]
       /\ resp' = RouteGetAvailableSubjects(catalog, store)
       /\ Served

DebugCategoriesRoute ==
  /\ Serving
  /\ \E store \in StoreOutcomes :
       /\ call' = [route |-> "debug.categories", store |-> store]
       /\ resp' = RouteDebugCategories(catalog, store)
       /\ Served

GetDocumentsByCategoryRoute ==
  /\ Serving
  /\ \E category \in TextInputs \ {<<>>}, store \in StoreOutcomes :
       /\ call' = [route |-> "category", arg |-> category, store |-> store]
       /\ resp' = RouteGetDocumentsByCategory(catalog, category, store)
       /\ Served

GetDocumentsBySubjectRoute ==
  /\ Serving
  /\ \E subject \in TextInputs \ {<<>>}, store \in StoreOutcomes :
       /\ call' = [route |-> "subject", arg |-> subject, store |-> store]
       /\ resp' = RouteGetDocumentsBySubject(catalog, subject, store)
       /\ Served

GetDocumentByIdRoute ==
  /\ Serving
  /\ \E id \in IdInputs, store \in StoreOutcomes :
       /\ call' = [route |-> "id", arg |-> id, store |-> store]
       /\ resp' = RouteGetDocumentById(catalog, id, store)
       /\ Served

ApiNext ==
  \/ SvcGetDocumentsWithFilters
  \/ SvcGetAvailableFilterValues
  \/ SvcGetDocumentsByCategory
  \/ SvcGetDocumentsBySubject
  \/ GetAllDocumentsRoute
  \/ GetDocumentsWithFiltersRoute
  \/ GetAvailableFilterValuesRoute
  \/ GetAvailableCategoriesRoute
  \/ GetAvailableSubjectsRoute
  \/ DebugCategoriesRoute
  \/ GetDocumentsByCategoryRoute
  \/ GetDocumentsBySubjectRoute
  \/ GetDocumentByIdRoute
  \/ NextRequest

SpecApi == ApiInit /\ [][ApiNext]_vars

(***************************************************************************)
(* Inputs of the pipeline specification: the files a data directory may    *)
(* hold and the tables the scripts may find.                               *)
(***************************************************************************)
FilePool ==
  { Decompose(Meta(Go3, Gugeo, Gugeo, <<>>, Suneung, 2024, 11, Pyeonggawon, Problem).filename),
    Meta(Go2, Suhak, Decompose(Suhak), Giha, Moui, 2023, 6, Saseol, Answer).filename,
    X \o DotPdf,
    X }

\* readdirSync: the names of a directory, each once, in some order.
DirListings ==
  { files \in UNION { [1..n -> FilePool] : n \in 0..MaxFiles } :
      \A i, j \in 1..Len(files) : i # j => files[i] # files[j] }

(***************************************************************************)
(* The pipeline specification: upload runs (uploadAllFiles, one file at a  *)
(* time, one store request per step) and repair runs (fixAllDocuments).    *)
(***************************************************************************)
Init ==
  /\ pc = "idle"
  /\ catalog \in {<<>>, <<RowPool[5]>>}
  /\ ParserIdle
  /\ ApiIdle
  /\ blobs = {}
  /\ dataDir \in {NoDir} \cup { [exists |-> TRUE, files |-> files] : files \in DirListings }
  /\ faults = 0
  /\ pdfFiles = <<>>
  /\ idx = 0
  /\ successCount = 0
  /\ skipped = 0
  /\ storagePath = <<>>
  /\ nextId = 10
  /\ uploadedIds = {}
  /\ storeFailed = FALSE
  /\ rowsAtStart = 0
  /\ runs = 0
  /\ lastFix = NoFix
  /\ CleanupIdle
  /\ ToolsIdle

\* uploadAllFiles up to the loop: the directory is read and filtered.
StartUpload ==
  /\ pc \in {"idle", "done"}
  /\ runs < MaxRuns
  /\ LET found == IF dataDir.exists THEN PdfFilesOf(dataDir.files) ELSE <<>>
     IN /\ pdfFiles' = found
        /\ pc' = IF found = <<>> THEN "done" ELSE "loop"
  /\ idx' = 1
  /\ successCount' = 0
  /\ skipped' = 0
  /\ storeFailed' = FALSE
  /\ rowsAtStart' = Len(catalog)
  /\ runs' = runs + 1
  /\ UNCHANGED <<rec, fname, parsed, catalog, apiVars, cleanupVars, toolVars, blobs, dataDir, faults, storagePath, nextId,
                 uploadedIds, lastFix>>

\* A slip of processFile: an invalid filename ends the run.
SkipInvalidFile_abort ==
  /\ pc = "loop"
  /\ idx <= Len(pdfFiles)
  /\ parseFilename(Basename(pdfFiles[idx])) = Null
  /\ fname' = Basename(pdfFiles[idx])
  /\ parsed' = Null
  /\ skipped' = skipped + 1
  /\ pc' = "done"
  /\ UNCHANGED <<rec, catalog, apiVars, cleanupVars, toolVars, blobs, dataDir, faults, pdfFiles, idx, successCount, storagePath,
                 nextId, uploadedIds, storeFailed, rowsAtStart, runs, lastFix>>

\* processFile on a filename that does not parse: logged, skipped, false.
SkipInvalidFile ==
  /\ pc = "loop"
  /\ idx <= Len(pdfFiles)
  /\ parseFilename(Basename(pdfFiles[idx])) = Null
  /\ fname' = Basename(pdfFiles[idx])
  /\ parsed' = Null
  /\ skipped' = skipped + 1
  /\ idx' = idx + 1
  /\ UNCHANGED <<pc, rec, catalog, apiVars, cleanupVars, toolVars, blobs, dataDir, faults, pdfFiles, successCount, storagePath,
                 nextId, uploadedIds, storeFailed, rowsAtStart, runs, lastFix>>

\* processFile on a filename that parses: the storage path is generated.
AcceptFile ==
  /\ pc = "loop"
  /\ idx <= Len(pdfFiles)
  /\ LET metadata == parseFilename(Basename(pdfFiles[idx]))
     IN /\ metadata # Null
        /\ parsed' = metadata
        /\ storagePath' = generateStoragePath(metadata)
  /\ fname' = Basename(pdfFiles[idx])
  /\ pc' = "s3"
  /\ UNCHANGED <<rec, catalog, apiVars, cleanupVars, toolVars, blobs, dataDir, faults, pdfFiles, idx, successCount,
                 skipped, nextId, uploadedIds, storeFailed, rowsAtStart, runs, lastFix>>

UploadToS3_ignoreFailure ==
  /\ pc = "s3"
  /\ \E ok \in BOOLEAN :
       IF ok
       THEN /\ blobs' = { b \in blobs : b.key # storagePath }
                          \cup {[key |-> storagePath, body |-> pdfFiles[idx]]}
            /\ UNCHANGED <<storeFailed, faults>>
       ELSE /\ faults < MaxFaults
            /\ faults' = faults + 1
            /\ storeFailed' = TRUE
            /\ UNCHANGED blobs
  /\ pc' = "db"
  /\ UNCHANGED <<rec, fname, parsed, catalog, apiVars, cleanupVars, toolVars, dataDir, pdfFiles, idx,
                 successCount, skipped, storagePath, nextId, uploadedIds, rowsAtStart, runs,
                 lastFix>>

\* uploadToS3: the put succeeds, or fails and processFile returns false.
UploadToS3 ==
  /\ pc = "s3"
  /\ \E ok \in BOOLEAN :
       IF ok
       THEN /\ blobs' = { b \in blobs : b.key # storagePath }
                          \cup {[key |-> storagePath, body |-> pdfFiles[idx]]}
            /\ pc' = "db"
            /\ UNCHANGED <<idx, storeFailed, faults>>
       ELSE /\ faults < MaxFaults
            /\ faults' = faults + 1
            /\ storeFailed' = TRUE
            /\ idx' = idx + 1
            /\ pc' = "loop"
            /\ UNCHANGED blobs
  /\ UNCHANGED <<rec, fname, parsed, catalog, apiVars, cleanupVars, toolVars, dataDir, pdfFiles, successCount,
                 skipped, storagePath, nextId, uploadedIds, rowsAtStart, runs, lastFix>>

\* uploadToSupabase: the row is upserted under a fresh id, or the store
\* rejects it; the loop counts the success and goes on.
UploadToSupabase ==
  /\ pc = "db"
  /\ \E ok \in BOOLEAN :
       IF ok
       THEN /\ catalog' = Append(catalog, MakeRow(parsed, storagePath, nextId, nextId))
            /\ uploadedIds' = uploadedIds \cup {nextId}
            /\ successCount' = successCount + 1
            /\ UNCHANGED <<storeFailed, faults>>
       ELSE /\ faults < MaxFaults
            /\ faults' = faults + 1
            /\ storeFailed' = TRUE
            /\ UNCHANGED <<catalog, uploadedIds, successCount>>
  /\ nextId' = nextId + 1
  /\ idx' = idx + 1
  /\ pc' = "loop"
  /\ UNCHANGED <<rec, fname, parsed, apiVars, cleanupVars, toolVars, blobs, dataDir, pdfFiles, skipped,
                 storagePath, rowsAtStart, runs, lastFix>>

\* The end of the loop: the summary is printed.
UploadSummary ==
  /\ pc = "loop"
  /\ idx > Len(pdfFiles)
  /\ pc' = "done"
  /\ UNCHANGED <<rec, fname, parsed, catalog, apiVars, uploadVars, cleanupVars, toolVars>>

\* fixAllDocuments: every row is checked, the rows with a field that needs
\* normalization are updated unless the store rejects the update.
FixAllDocuments ==
  /\ pc \in {"idle", "done"}
  /\ runs < MaxRuns
  /\ runs' = runs + 1
  /\ LET fixedRows == [i \in 1..Len(catalog) |-> ApplyFix(catalog[i])]
         withIssues == { i \in 1..Len(catalog) : fixedRows[i] # catalog[i] }
     IN \E failing \in SUBSET withIssues :
          /\ faults + Cardinality(failing) <= MaxFaults
          /\ faults' = faults + Cardinality(failing)
          /\ catalog' = [i \in 1..Len(catalog) |->
                           IF i \in failing THEN catalog[i] ELSE fixedRows[i]]
          /\ lastFix' = [checked |-> Len(catalog),
                         withIssues |-> Cardinality(withIssues),
                         fixed |-> Cardinality(withIssues \ failing)]
  /\ UNCHANGED <<pc, rec, fname, parsed, apiVars, cleanupVars, toolVars, blobs, dataDir, pdfFiles, idx,
                 successCount, skipped, storagePath, nextId, uploadedIds, storeFailed,
                 rowsAtStart>>

Next ==
  \/ StartUpload
  \/ SkipInvalidFile
  \/ AcceptFile
  \/ UploadToS3
  \/ UploadToSupabase
  \/ UploadSummary
  \/ FixAllDocuments

Spec == Init /\ [][Next]_vars

(***************************************************************************)
(* The cleanup specification: one run of cleanup_exams.ts (main, cleanup,  *)
(* deleteFromSupabase, listS3Objects, deleteFromS3), one store request or  *)
(* one batch of requests per step.                                         *)
(***************************************************************************)
\* key.startsWith(prefix), as ListObjectsV2 applies Prefix
StartsWith(s, pre) == Len(s) >= Len(pre) /\ SubSeq(s, 1, Len(pre)) = pre

\* listS3Objects(prefix = 'exams/')
ExamsPrefix == <<101, 120, 97, 109, 115, Slash>>

\* The id no row has: '00000000-0000-0000-0000-000000000000'
NilId == 0

\* const batchSize = 1000
batchSize == 1000

\* process.argv of the runs considered
ArgvInputs ==
  { <<"node", "cleanup_exams.ts">>,
    <<"node", "cleanup_exams.ts", "--confirm">>,
    <<"node", "cleanup_exams.ts", "--yes">>,
    <<"node", "cleanup_exams.ts", "confirm">> }

\* The objects a bucket may hold: PDFs under exams/ and one object elsewhere.
BlobPool ==
  { [key |-> RowPool[1].storage_path, body |-> RowPool[1].filename],
    [key |-> RowPool[3].storage_path, body |-> RowPool[3].filename],
    [key |-> pdfS3Key(1), body |-> RowPool[1].filename] }

\* The keys of a listing, in the order of the keys.
RECURSIVE KeysInOrder(_)
KeysInOrder(keys) ==
  IF keys = {} THEN <<>>
  ELSE LET k == CHOOSE x \in keys : \A y \in keys \ {x} : StrLess(x, y)
       IN <<k>> \o KeysInOrder(keys \ {k})

Slice_toEnd(seq, from, to) == SubSeq(seq, from + 1, Len(seq))

\* objects.slice(i, i + batchSize)
Slice(seq, from, to) ==
  SubSeq(seq, from + 1, IF to < Len(seq) THEN to ELSE Len(seq))

uploadRunVars == <<dataDir, faults, pdfFiles, idx, successCount, skipped, storagePath,
                   nextId, uploadedIds, storeFailed, rowsAtStart, runs, lastFix>>

CleanupInit ==
  /\ pc = "main"
  /\ catalog \in Catalogs
  /\ blobs \in SUBSET BlobPool
  /\ argv \in ArgvInputs
  /\ configured \in BOOLEAN
  /\ objects = <<>>
  /\ batchStart = 0
  /\ deletedCount = 0
  /\ s3Deleted = 0
  /\ supabaseDeleted = 0
  /\ ToolsIdle
  /\ ParserIdle
  /\ ApiIdle
  /\ dataDir = NoDir
  /\ faults = 0
  /\ pdfFiles = <<>>
  /\ idx = 0
  /\ successCount = 0
  /\ skipped = 0
  /\ storagePath = <<>>
  /\ nextId = 10
  /\ uploadedIds = {}
  /\ storeFailed = FALSE
  /\ rowsAtStart = 0
  /\ runs = 0
  /\ lastFix = NoFix

\* A slip of main: cleanup() is called whatever the command line holds.
Main_unconfirmed ==
  /\ pc = "main"
  /\ pc' = IF ~configured THEN "exit1" ELSE "deleteFromSupabase"
  /\ UNCHANGED <<catalog, blobs, parserVars, apiVars, uploadRunVars, cleanupVars, toolVars>>

\* main: the constructor throws on a missing setting (exit 1); cleanup()
\* is called only if process.argv includes '--confirm' (else exit 0).
Main ==
  /\ pc = "main"
  /\ pc' = IF ~configured THEN "exit1"
           ELSE IF \E i \in 1..Len(argv) : argv[i] = "--confirm"
                THEN "deleteFromSupabase"
                ELSE "exit0"
  /\ UNCHANGED <<catalog, blobs, parserVars, apiVars, uploadRunVars, cleanupVars, toolVars>>

\* deleteFromSupabase: the rows are counted, then every row whose id is not
\* the nil id is deleted; an error of either request is logged and 0 returned.
DeleteFromSupabase ==
  /\ pc = "deleteFromSupabase"
  /\ \E outcome \in {"ok", "count error", "delete error"} :
       IF outcome = "ok"
       THEN /\ catalog' = SelectSeq(catalog, LAMBDA r : r.id = NilId)
            /\ supabaseDeleted' = Len(catalog)
       ELSE /\ catalog' = catalog
            /\ supabaseDeleted' = 0
  /\ pc' = "listS3Objects"
  /\ UNCHANGED <<blobs, parserVars, apiVars, uploadRunVars, toolVars, argv, configured, objects,
                 batchStart, deletedCount, s3Deleted>>

\* deleteFromS3 up to the loop: listS3Objects returns the keys under the
\* prefix, or [] when the listing fails; with no key, 0 is returned.
ListS3Objects ==
  /\ pc = "listS3Objects"
  /\ \E ok \in BOOLEAN :
       LET listed == IF ok
                     THEN KeysInOrder({ b.key : b \in { x \in blobs :
                                                           StartsWith(x.key, ExamsPrefix) } })
                     ELSE <<>>
       IN /\ objects' = listed
          /\ pc' = IF listed = <<>> THEN "summary" ELSE "deleteBatch"
  /\ batchStart' = 0
  /\ deletedCount' = 0
  /\ s3Deleted' = 0
  /\ UNCHANGED <<catalog, blobs, parserVars, apiVars, uploadRunVars, toolVars, argv, configured,
                 supabaseDeleted>>

\* The deletes of a batch that took effect when the batch settles: all of them,
\* or, when one was rejected, any part of them. For a batch of more than
\* MaxPartial keys the parts considered are none and all but the last.
DeleteOutcomes(batch) ==
  LET keys == { batch[i] : i \in 1..Len(batch) }
  IN IF Len(batch) <= MaxPartial
     THEN SUBSET keys
     ELSE {keys, {}, keys \ {batch[Len(batch)]}}

\* One turn of the loop of deleteFromS3: the deletes of a batch are sent
\* together; if one is rejected, Promise.all rejects, the others may or may
\* not have taken effect, and deleteFromS3 returns 0.
DeleteBatch ==
  /\ pc = "deleteBatch"
  /\ batchStart < Len(objects)
  /\ LET batch == Slice(objects, batchStart, batchStart + batchSize)
         keys == { batch[i] : i \in 1..Len(batch) }
     IN \E gone \in DeleteOutcomes(batch) :
          /\ blobs' = { b \in blobs : b.key \notin gone }
          /\ IF gone = keys
             THEN /\ deletedCount' = deletedCount + Len(batch)
                  /\ batchStart' = batchStart + batchSize
                  /\ UNCHANGED <<pc, s3Deleted>>
             ELSE /\ s3Deleted' = 0
                  /\ pc' = "summary"
                  /\ UNCHANGED <<deletedCount, batchStart>>
  /\ UNCHANGED <<catalog, parserVars, apiVars, uploadRunVars, toolVars, argv, configured, objects,
                 supabaseDeleted>>

\* The end of the loop: deleteFromS3 returns deletedCount.
DeleteFromS3Return ==
  /\ pc = "deleteBatch"
  /\ batchStart >= Len(objects)
  /\ s3Deleted' = deletedCount
  /\ pc' = "summary"
  /\ UNCHANGED <<catalog, blobs, parserVars, apiVars, uploadRunVars, toolVars, argv, configured,
                 objects, batchStart, deletedCount, supabaseDeleted>>

\* cleanup: the summary is printed.
CleanupSummary ==
  /\ pc = "summary"
  /\ pc' = "exit0"
  /\ UNCHANGED <<catalog, blobs, parserVars, apiVars, uploadRunVars, cleanupVars, toolVars>>

CleanupNext ==
  \/ Main
  \/ DeleteFromSupabase
  \/ ListS3Objects
  \/ DeleteBatch
  \/ DeleteFromS3Return
  \/ CleanupSummary

SpecCleanup == CleanupInit /\ [][CleanupNext]_vars

\* The loop of deleteFromS3 over listings that need one, two and three
\* batches: the script has been confirmed, the rows are deleted and
\* listS3Objects has returned n keys, exams/ followed by one character.
ListingSizes == {1, 2, 3, 4, 999, 1000, 1001, 1500, 1999, 2000, 2001, 2500, 3000}

Listing(n) == [i \in 1..n |-> ExamsPrefix \o <<i + 47>>]

ChunkInit ==
  /\ pc = "deleteBatch"
  /\ \E n \in ListingSizes :
       /\ objects = Listing(n)
       /\ blobs = { [key |-> Listing(n)[i], body |-> <<>>] : i \in 1..n }
  /\ argv = <<"node", "cleanup_exams.ts", "--confirm">>
  /\ configured = TRUE
  /\ batchStart = 0
  /\ deletedCount = 0
  /\ s3Deleted = 0
  /\ supabaseDeleted = 0
  /\ catalog = <<>>
  /\ ToolsIdle
  /\ ParserIdle
  /\ ApiIdle
  /\ dataDir = NoDir
  /\ faults = 0
  /\ pdfFiles = <<>>
  /\ idx = 0
  /\ successCount = 0
  /\ skipped = 0
  /\ storagePath = <<>>
  /\ nextId = 10
  /\ uploadedIds = {}
  /\ storeFailed = FALSE
  /\ rowsAtStart = 0
  /\ runs = 0
  /\ lastFix = NoFix

ChunkNext == DeleteBatch \/ DeleteFromS3Return \/ CleanupSummary

\* The script is sequential: a step that can be taken is taken.
SpecChunk == ChunkInit /\ [][ChunkNext]_vars /\ WF_vars(ChunkNext)

(***************************************************************************)
(* The normalizer specification: the text functions of the service and of  *)
(* the repair script applied to one text after another.                    *)
(***************************************************************************)
\* Code units of the texts: a leading consonant, a vowel and a trailing
\* consonant jamo, an open and a closed syllable, a space and a letter.
TextAlphabet == {LBase, VBase, TBase + 1, SBase, SBase + 1, Space, 97}

Texts == UNION { [1..n -> TextAlphabet] : n \in 0..MaxText }

NormalizeInit ==
  /\ pc = "text"
  /\ catalog = <<>>
  /\ ParserIdle
  /\ ApiIdle
  /\ UploadIdle
  /\ CleanupIdle
  /\ ToolsIdle

NormalizeKoreanText ==
  /\ pc = "text"
  /\ \E text \in Texts :
       call' = [route |-> "normalizeKoreanText", arg |-> text,
                result |-> normalizeKoreanText(text)]
  /\ pc' = "normalized"
  /\ UNCHANGED <<catalog, resp, parserVars, uploadVars, cleanupVars, toolVars>>

NormalizeInput ==
  /\ pc = "text"
  /\ \E text \in Texts :
       call' = [route |-> "normalizeInput", arg |-> text, result |-> normalizeInput(text)]
  /\ pc' = "normalized"
  /\ UNCHANGED <<catalog, resp, parserVars, uploadVars, cleanupVars, toolVars>>

NeedsNormalization ==
  /\ pc = "text"
  /\ \E text \in Texts :
       call' = [route |-> "needsNormalization", arg |-> text,
                result |-> needsNormalization(text)]
  /\ pc' = "normalized"
  /\ UNCHANGED <<catalog, resp, parserVars, uploadVars, cleanupVars, toolVars>>

NextText ==
  /\ pc = "normalized"
  /\ call' = NoCall
  /\ pc' = "text"
  /\ UNCHANGED <<catalog, resp, parserVars, uploadVars, cleanupVars, toolVars>>

NormalizeNext == NormalizeKoreanText \/ NormalizeInput \/ NeedsNormalization \/ NextText

SpecNormalize == NormalizeInit /\ [][NormalizeNext]_vars

(***************************************************************************)
(* The submission uploader (script/upload_submission_simple.ts).           *)
(***************************************************************************)
SubmissionsPrefix ==
  <<100, 111, 99, 117, 109, 101, 110, 116, 95, 115, 117, 98, 109, 105, 115, 115,
    105, 111, 110, 115, 47>>

generateSubmissionStoragePath(id) == SubmissionsPrefix \o IntToStr(id) \o DotPdf

\* score?: number, either left out or a number.
Score(v) == [given |-> TRUE, val |-> v]

\* data.score || null: every falsy score is stored as null.
ScoreOrNull(score) ==
  IF score.given /\ score.val # 0
  THEN [null |-> FALSE, val |-> score.val]
  ELSE [null |-> TRUE, val |-> 0]

\* The record uploadSubmissionToSupabase inserts.
MakeSubmission(d, id, now) ==
  [id |-> id,
   user_id |-> d.user_id,
   document_id |-> d.document_id,
   storage_path |-> IF d.filePath # <<>> THEN generateSubmissionStoragePath(id) ELSE <<>>,
   score |-> ScoreOrNull(d.score),
   created_at |-> now]

\* .update({ storage_path }).eq('id', id)
UpdateStoragePath(rows, id, path) ==
  [i \in 1..Len(rows) |->
     IF rows[i].id = id THEN [rows[i] EXCEPT !.storage_path = path] ELSE rows[i]]

SubmissionFile == <<115, 46, 112, 100, 102>>

SubmissionInputs ==
  [user_id : {1},
   document_id : {1, 2},
   score : {NoScore, Score(0), Score(85), Score(0 - 1)},
   filePath : {<<>>, SubmissionFile}]

uploadOtherVars == <<dataDir, pdfFiles, skipped, storagePath, uploadedIds, storeFailed,
                     rowsAtStart, runs, lastFix>>

SubmitInit ==
  /\ pc = "processSubmission"
  /\ data \in SubmissionInputs
  /\ submissions = <<>>
  /\ submissionId = 0
  /\ catalog = <<>>
  /\ ParserIdle
  /\ ApiIdle
  /\ UploadIdle
  /\ CleanupIdle
  /\ ClientIdle
  /\ ThumbnailIdle
  /\ RenameIdle

\* uploadSubmissionToSupabase: the row is inserted under a fresh id and the id
\* returned, or the insert fails and processSubmission returns false.
UploadSubmissionToSupabase ==
  /\ pc = "processSubmission"
  /\ \E ok \in BOOLEAN :
       IF ok
       THEN /\ submissions' = Append(submissions, MakeSubmission(data, nextId, nextId))
            /\ submissionId' = nextId
            /\ IF data.filePath # <<>>
               THEN pc' = "update" /\ UNCHANGED successCount
               ELSE pc' = "next" /\ successCount' = successCount + 1
            /\ UNCHANGED faults
       ELSE /\ faults < MaxFaults
            /\ faults' = faults + 1
            /\ submissionId' = 0
            /\ pc' = "next"
            /\ UNCHANGED <<submissions, successCount>>
  /\ nextId' = nextId + 1
  /\ UNCHANGED <<catalog, blobs, idx, data, parserVars, apiVars, uploadOtherVars, cleanupVars,
                 clientVars, thumbnailVars, renameVars>>

\* processSubmission with a file: the storage path is written to the row
\* before the file is uploaded; a failed update returns false.
UpdateSubmissionStoragePath ==
  /\ pc = "update"
  /\ \E ok \in BOOLEAN :
       IF ok
       THEN /\ submissions' = UpdateStoragePath(submissions, submissionId,
                                                generateSubmissionStoragePath(submissionId))
            /\ pc' = "uploadFileToS3"
            /\ UNCHANGED faults
       ELSE /\ faults < MaxFaults
            /\ faults' = faults + 1
            /\ pc' = "next"
            /\ UNCHANGED submissions
  /\ UNCHANGED <<catalog, blobs, idx, successCount, nextId, data, submissionId, parserVars,
                 apiVars, uploadOtherVars, cleanupVars,
                 clientVars, thumbnailVars, renameVars>>

\* uploadFileToS3: the put succeeds or fails; its result is processSubmission's.
UploadFileToS3 ==
  /\ pc = "uploadFileToS3"
  /\ \E ok \in BOOLEAN :
       IF ok
       THEN /\ blobs' = { b \in blobs : b.key # generateSubmissionStoragePath(submissionId) }
                          \cup {[key |-> generateSubmissionStoragePath(submissionId),
                                 body |-> data.filePath]}
            /\ successCount' = successCount + 1
            /\ UNCHANGED faults
       ELSE /\ faults < MaxFaults
            /\ faults' = faults + 1
            /\ UNCHANGED <<blobs, successCount>>
  /\ pc' = "next"
  /\ UNCHANGED <<catalog, submissions, idx, nextId, data, submissionId, parserVars, apiVars,
                 uploadOtherVars, cleanupVars,
                 clientVars, thumbnailVars, renameVars>>

\* uploadMultipleSubmissions: the loop takes the next submission.
NextSubmission ==
  /\ pc = "next"
  /\ idx + 1 < MaxSubmissions
  /\ idx' = idx + 1
  /\ \E d \in SubmissionInputs : data' = d
  /\ pc' = "processSubmission"
  /\ UNCHANGED <<catalog, blobs, submissions, successCount, nextId, faults, submissionId,
                 parserVars, apiVars, uploadOtherVars, cleanupVars,
                 clientVars, thumbnailVars, renameVars>>

SubmitNext ==
  \/ UploadSubmissionToSupabase
  \/ UpdateSubmissionStoragePath
  \/ UploadFileToS3
  \/ NextSubmission

SpecSubmit == SubmitInit /\ [][SubmitNext]_vars

(***************************************************************************)
(* The connection handles (src/supabase/supabase-client.ts and             *)
(* src/supabase/supabase.service.ts) within one process.                   *)
(***************************************************************************)
getSupabaseClient_alwaysCreate(client, env, fresh) ==
  IF ~env
  THEN [threw |-> TRUE, client |-> client, result |-> 0]
  ELSE [threw |-> FALSE, client |-> fresh, result |-> fresh]

\* getSupabaseClient: the module's client is created on the first call that
\* finds the settings, and returned; without settings the call throws.
getSupabaseClient(client, env, fresh) ==
  IF client = 0
  THEN IF ~env
       THEN [threw |-> TRUE, client |-> 0, result |-> 0]
       ELSE [threw |-> FALSE, client |-> fresh, result |-> fresh]
  ELSE [threw |-> FALSE, client |-> client, result |-> client]

\* createSupabaseClient: a new client on every call.
createSupabaseClient(env, fresh) ==
  IF ~env
  THEN [threw |-> TRUE, result |-> 0]
  ELSE [threw |-> FALSE, result |-> fresh]

uploadCountVars == <<blobs, dataDir, faults, pdfFiles, successCount, skipped, storagePath,
                     uploadedIds, storeFailed, rowsAtStart, runs, lastFix>>
cleanupRunVars == <<argv, objects, batchStart, deletedCount, s3Deleted, supabaseDeleted>>

ClientInit ==
  /\ pc = "start"
  /\ configured \in BOOLEAN
  /\ catalog = <<>>
  /\ argv = <<>>
  /\ objects = <<>>
  /\ batchStart = 0
  /\ deletedCount = 0
  /\ s3Deleted = 0
  /\ supabaseDeleted = 0
  /\ ParserIdle
  /\ ApiIdle
  /\ UploadIdle
  /\ ToolsIdle

GetSupabaseClient ==
  /\ pc \in {"start", "running"}
  /\ idx < MaxCalls
  /\ idx' = idx + 1
  /\ LET r == getSupabaseClient(supabaseClient, configured, nextId)
     IN /\ supabaseClient' = r.client
        /\ clients' = IF r.client # supabaseClient
                      THEN clients \cup {[id |-> r.client, by |-> "getSupabaseClient"]}
                      ELSE clients
        /\ nextId' = IF r.client # supabaseClient THEN nextId + 1 ELSE nextId
        /\ call' = [route |-> "getSupabaseClient", threw |-> r.threw, result |-> r.result]
  /\ UNCHANGED <<pc, catalog, resp, supabase, configured, parserVars, uploadCountVars,
                 cleanupRunVars, submissionVars, thumbnailVars, renameVars>>

CreateSupabaseClient ==
  /\ pc \in {"start", "running"}
  /\ idx < MaxCalls
  /\ idx' = idx + 1
  /\ LET r == createSupabaseClient(configured, nextId)
     IN /\ clients' = IF r.threw THEN clients
                      ELSE clients \cup {[id |-> r.result, by |-> "createSupabaseClient"]}
        /\ nextId' = IF r.threw THEN nextId ELSE nextId + 1
        /\ call' = [route |-> "createSupabaseClient", threw |-> r.threw, result |-> r.result]
  /\ UNCHANGED <<pc, catalog, resp, supabaseClient, supabase, configured, parserVars,
                 uploadCountVars, cleanupRunVars, submissionVars, thumbnailVars, renameVars>>

\* SupabaseService.onModuleInit, run once when the module starts: the client
\* of the service is created, or the start fails on a missing setting.
OnModuleInit ==
  /\ pc = "start"
  /\ IF configured
     THEN /\ supabase' = nextId
          /\ clients' = clients \cup {[id |-> nextId, by |-> "onModuleInit"]}
          /\ nextId' = nextId + 1
          /\ pc' = "running"
     ELSE /\ pc' = "failed"
          /\ UNCHANGED <<supabase, clients, nextId>>
  /\ UNCHANGED <<catalog, call, resp, idx, supabaseClient, configured, parserVars,
                 uploadCountVars, cleanupRunVars, submissionVars, thumbnailVars, renameVars>>

\* SupabaseService.getClient, called by the services on every request.
GetClient ==
  /\ pc = "running"
  /\ idx < MaxCalls
  /\ idx' = idx + 1
  /\ call' = [route |-> "getClient", threw |-> FALSE, result |-> supabase]
  /\ UNCHANGED <<pc, catalog, resp, nextId, clientVars, configured, parserVars,
                 uploadCountVars, cleanupRunVars, submissionVars, thumbnailVars, renameVars>>

ClientNext == GetSupabaseClient \/ CreateSupabaseClient \/ OnModuleInit \/ GetClient

SpecClient == ClientInit /\ [][ClientNext]_vars

(***************************************************************************)
(* The thumbnail update script (script/update_thumbnails.ts).              *)
(***************************************************************************)
HasKey(bs, key) == \E b \in bs : b.key = key

DotPng == <<46, 112, 110, 103>>

thumbnailS3Key(documentId) ==
  <<116, 104, 117, 109, 98, 110, 97, 105, 108, 115, Slash>> \o IntToStr(documentId) \o DotPng

\* The bytes of a thumbnail made before the run and of one rendered in it.
OldPng == <<111, 108, 100>>
NewPng == <<110, 101, 119>>

scriptCountVars == <<dataDir, pdfFiles, skipped, storagePath, nextId, uploadedIds, storeFailed,
                     rowsAtStart, runs, lastFix>>

\* The documents of the table and what the bucket holds for them when
\* updateAllThumbnails is called.
ThumbnailInit ==
  /\ pc = "getAllDocuments"
  /\ catalog \in {<<RowPool[1]>>, <<RowPool[1], RowPool[2]>>}
  /\ blobs \in SUBSET { [key |-> pdfS3Key(1), body |-> RowPool[1].filename],
                        [key |-> thumbnailS3Key(1), body |-> OldPng],
                        [key |-> pdfS3Key(2), body |-> RowPool[2].filename],
                        [key |-> thumbnailS3Key(2), body |-> OldPng] }
  /\ dataDir = NoDir
  /\ faults = 0
  /\ pdfFiles = <<>>
  /\ idx = 0
  /\ successCount = 0
  /\ skipped = 0
  /\ storagePath = <<>>
  /\ nextId = 10
  /\ uploadedIds = {}
  /\ storeFailed = FALSE
  /\ rowsAtStart = 0
  /\ runs = 0
  /\ lastFix = NoFix
  /\ ParserIdle
  /\ ApiIdle
  /\ CleanupIdle
  /\ ToolsIdle

\* updateAllThumbnails: the documents are fetched; a failed fetch is thrown on
\* and no document is processed.
GetAllDocuments ==
  /\ pc = "getAllDocuments"
  /\ \E ok \in BOOLEAN :
       IF ok
       THEN /\ pc' = "loop"
            /\ idx' = 1
            /\ UNCHANGED faults
       ELSE /\ faults < MaxFaults
            /\ faults' = faults + 1
            /\ pc' = "done"
            /\ UNCHANGED idx
  /\ UNCHANGED <<catalog, blobs, successCount, parserVars, apiVars, scriptCountVars,
                 cleanupVars, toolVars>>

\* The loop calls processDocument on the next document.
ProcessDocument ==
  /\ pc = "loop"
  /\ idx <= Len(catalog)
  /\ document' = catalog[idx].id
  /\ blobsAtStart' = blobs
  /\ pc' = "download"
  /\ UNCHANGED <<catalog, blobs, faults, idx, successCount, parserVars, apiVars,
                 scriptCountVars, cleanupVars, submissionVars, clientVars, renameVars>>

\* downloadPDFFromS3: false when the object is missing or the request fails,
\* and processDocument returns false.
DownloadPDFFromS3 ==
  /\ pc = "download"
  /\ \E ok \in BOOLEAN :
       IF ok /\ HasKey(blobs, pdfS3Key(document))
       THEN /\ pc' = "generate"
            /\ UNCHANGED <<faults, idx>>
       ELSE /\ HasKey(blobs, pdfS3Key(document)) => (~ok /\ faults < MaxFaults)
            /\ ~HasKey(blobs, pdfS3Key(document)) => ok
            /\ faults' = IF HasKey(blobs, pdfS3Key(document)) THEN faults + 1 ELSE faults
            /\ idx' = idx + 1
            /\ pc' = "loop"
  /\ UNCHANGED <<catalog, blobs, successCount, parserVars, apiVars, scriptCountVars,
                 cleanupVars, toolVars>>

\* generateThumbnail: the first page is rendered, or processDocument returns false.
GenerateThumbnail ==
  /\ pc = "generate"
  /\ \E ok \in BOOLEAN :
       IF ok
       THEN /\ pc' = "exists"
            /\ UNCHANGED <<faults, idx>>
       ELSE /\ faults < MaxFaults
            /\ faults' = faults + 1
            /\ idx' = idx + 1
            /\ pc' = "loop"
  /\ UNCHANGED <<catalog, blobs, successCount, parserVars, apiVars, scriptCountVars,
                 cleanupVars, toolVars>>

\* thumbnailExists: true when the GetObject succeeds; a missing object and a
\* failed request both give false.
ThumbnailExists ==
  /\ pc = "exists"
  /\ \E ok \in BOOLEAN :
       IF ok
       THEN /\ pc' = IF HasKey(blobs, thumbnailS3Key(document)) THEN "delete" ELSE "upload"
            /\ UNCHANGED faults
       ELSE /\ HasKey(blobs, thumbnailS3Key(document))
            /\ faults < MaxFaults
            /\ faults' = faults + 1
            /\ pc' = "upload"
  /\ UNCHANGED <<catalog, blobs, idx, successCount, parserVars, apiVars, scriptCountVars,
                 cleanupVars, toolVars>>

\* deleteThumbnailFromS3: its result is not looked at.
DeleteThumbnailFromS3 ==
  /\ pc = "delete"
  /\ \E ok \in BOOLEAN :
       IF ok
       THEN /\ blobs' = { b \in blobs : b.key # thumbnailS3Key(document) }
            /\ UNCHANGED faults
       ELSE /\ faults < MaxFaults
            /\ faults' = faults + 1
            /\ UNCHANGED blobs
  /\ pc' = "upload"
  /\ UNCHANGED <<catalog, idx, successCount, parserVars, apiVars, scriptCountVars,
                 cleanupVars, toolVars>>

\* uploadThumbnailToS3: the new thumbnail is put and processDocument returns
\* true, or the put fails and it returns false.
UploadThumbnailToS3 ==
  /\ pc = "upload"
  /\ \E ok \in BOOLEAN :
       IF ok
       THEN /\ blobs' = { b \in blobs : b.key # thumbnailS3Key(document) }
                          \cup {[key |-> thumbnailS3Key(document), body |-> NewPng]}
            /\ successCount' = successCount + 1
            /\ UNCHANGED faults
       ELSE /\ faults < MaxFaults
            /\ faults' = faults + 1
            /\ UNCHANGED <<blobs, successCount>>
  /\ idx' = idx + 1
  /\ pc' = "loop"
  /\ UNCHANGED <<catalog, parserVars, apiVars, scriptCountVars, cleanupVars, toolVars>>

\* The end of the loop.
ThumbnailSummary ==
  /\ pc = "loop"
  /\ idx > Len(catalog)
  /\ pc' = "done"
  /\ UNCHANGED <<catalog, blobs, faults, idx, successCount, parserVars, apiVars,
                 scriptCountVars, cleanupVars, toolVars>>

ThumbnailNext ==
  \/ GetAllDocuments
  \/ ProcessDocument
  \/ DownloadPDFFromS3
  \/ GenerateThumbnail
  \/ ThumbnailExists
  \/ DeleteThumbnailFromS3
  \/ UploadThumbnailToS3
  \/ ThumbnailSummary

SpecThumbnail == ThumbnailInit /\ [][ThumbnailNext]_vars

(***************************************************************************)
(* The rename script (rename_files.ts).                                    *)
(***************************************************************************)
\* The fixed values: "고3", "수능", "2024", "11", "평가원".
GRADE_LEVEL == Go3
EXAM_TYPE == Suneung
EXAM_YEAR == <<50, 48, 50, 52>>
EXAM_MONTH == <<49, 49>>
SOURCE == Pyeonggawon

\* The table of subjects; its selection is null in every entry, which the
\* filename writes as the empty string.
SUBJECT_MAPPINGS ==
  { [key |-> <<44397, 50612>>,
     category |-> <<44397, 50612>>,
     subject |-> <<44397, 50612>>,
     selection |-> <<>>],
    [key |-> <<49688, 54617>>,
     category |-> <<49688, 54617>>,
     subject |-> <<49688, 54617>>,
     selection |-> <<>>],
    [key |-> <<50689, 50612>>,
     category |-> <<50689, 50612>>,
     subject |-> <<50689, 50612>>,
     selection |-> <<>>],
    [key |-> <<54620, 44397, 49324>>,
     category |-> <<54620, 44397, 49324>>,
     subject |-> <<54620, 44397, 49324>>,
     selection |-> <<>>],
    [key |-> <<49373, 54876, 44284, 50980, 47532>>,
     category |-> <<49324, 54924, 53456, 44396>>,
     subject |-> <<49373, 54876, 44284, 32, 50980, 47532>>,
     selection |-> <<>>],
    [key |-> <<50980, 47532, 50752, 49324, 49345>>,
     category |-> <<49324, 54924, 53456, 44396>>,
     subject |-> <<50980, 47532, 50752, 32, 49324, 49345>>,
     selection |-> <<>>],
    [key |-> <<54620, 44397, 51648, 47532>>,
     category |-> <<49324, 54924, 53456, 44396>>,
     subject |-> <<54620, 44397, 51648, 47532>>,
     selection |-> <<>>],
    [key |-> <<49464, 44228, 51648, 47532>>,
     category |-> <<49324, 54924, 53456, 44396>>,
     subject |-> <<49464, 44228, 51648, 47532>>,
     selection |-> <<>>],
    [key |-> <<46041, 50500, 49884, 50500, 49324>>,
     category |-> <<49324, 54924, 53456, 44396>>,
     subject |-> <<46041, 50500, 49884, 50500, 49324>>,
     selection |-> <<>>],
    [key |-> <<49464, 44228, 49324>>,
     category |-> <<49324, 54924, 53456, 44396>>,
     subject |-> <<49464, 44228, 49324>>,
     selection |-> <<>>],
    [key |-> <<44221, 51228>>,
     category |-> <<49324, 54924, 53456, 44396>>,
     subject |-> <<44221, 51228>>,
     selection |-> <<>>],
    [key |-> <<51221, 52824, 50752, 48277>>,
     category |-> <<49324, 54924, 53456, 44396>>,
     subject |-> <<51221, 52824, 50752, 32, 48277>>,
     selection |-> <<>>],
    [key |-> <<49324, 54924, 47928, 54868>>,
     category |-> <<49324, 54924, 53456, 44396>>,
     subject |-> <<49324, 54924, 183, 47928, 54868>>,
     selection |-> <<>>],
    [key |-> <<47932, 47532, 54617, 49>>,
     category |-> <<44284, 54617, 53456, 44396>>,
     subject |-> <<47932, 47532, 54617, 32, 73>>,
     selection |-> <<>>],
    [key |-> <<47932, 47532, 54617, 50>>,
     category |-> <<44284, 54617, 53456, 44396>>,
     subject |-> <<47932, 47532, 54617, 32, 73, 73>>,
     selection |-> <<>>],
    [key |-> <<54868, 54617, 49>>,
     category |-> <<44284, 54617, 53456, 44396>>,
     subject |-> <<54868, 54617, 32, 73>>,
     selection |-> <<>>],
    [key |-> <<54868, 54617, 50>>,
     category |-> <<44284, 54617, 53456, 44396>>,
     subject |-> <<54868, 54617, 32, 73, 73>>,
     selection |-> <<>>],
    [key |-> <<49373, 47749, 44284, 54617, 49>>,
     category |-> <<44284, 54617, 53456, 44396>>,
     subject |-> <<49373, 47749, 44284, 54617, 32, 73>>,
     selection |-> <<>>],
    [key |-> <<49373, 47749, 44284, 54617, 50>>,
     category |-> <<44284, 54617, 53456, 44396>>,
     subject |-> <<49373, 47749, 44284, 54617, 32, 73, 73>>,
     selection |-> <<>>],
    [key |-> <<51648, 44396, 44284, 54617, 49>>,
     category |-> <<44284, 54617, 53456, 44396>>,
     subject |-> <<51648, 44396, 44284, 54617, 32, 73>>,
     selection |-> <<>>],
    [key |-> <<51648, 44396, 44284, 54617, 50>>,
     category |-> <<44284, 54617, 53456, 44396>>,
     subject |-> <<51648, 44396, 44284, 54617, 32, 73, 73>>,
     selection |-> <<>>] }

Munje == <<47928, 51228>>
Jeongdap == <<51221, 45813>>
Dapji == <<45813, 51648>>

DOC_TYPE_MAPPINGS ==
  { [key |-> Munje, docType |-> Problem],
    [key |-> Jeongdap, docType |-> Answer],
    [key |-> Dapji, docType |-> Answer] }

\* "2025학년도-대학수학능력시험-"
PatternPrefix ==
  <<50, 48, 50, 53, 54617, 45380, 46020, 45, 45824, 54617, 49688, 54617, 45733, 47141,
      49884, 54744, 45>>

\* "생명과학2-정답-1"
SpecialCase == <<49373, 47749, 44284, 54617, 50, 45, 51221, 45813, 45, 49>>

Hyphen == 45
Dot == 46

ContainsAt(s, i, w) == i + Len(w) - 1 <= Len(s) /\ SubSeq(s, i, i + Len(w) - 1) = w

Includes(s, w) == \E i \in 1..(Len(s) + 1) : ContainsAt(s, i, w)

\* path.parse(filename).name: the name without its last extension; a leading
\* dot does not start an extension.
NameWithoutExt(filename) ==
  LET dots == { i \in 2..Len(filename) : filename[i] = Dot }
  IN IF dots = {} THEN filename
     ELSE SubSeq(filename, 1, (CHOOSE i \in dots : \A j \in dots : j <= i) - 1)

\* Where "-(문제|정답|답지)" can follow a subject that starts at position from.
DocTypeHyphens(name, from) ==
  { j \in (from + 1)..Len(name) :
      name[j] = Hyphen /\ \E d \in DOC_TYPE_MAPPINGS : ContainsAt(name, j + 1, d.key) }

\* name.match(/2025학년도-대학수학능력시험-(.+?)-(문제|정답|답지)/): the leftmost
\* match, with the shortest subject; [found |-> FALSE] for null.
NoMatch == [found |-> FALSE, subject |-> <<>>, docType |-> <<>>]

Match(name) ==
  LET starts == { i \in 1..Len(name) :
                    /\ ContainsAt(name, i, PatternPrefix)
                    /\ DocTypeHyphens(name, i + Len(PatternPrefix)) # {} }
  IN IF starts = {} THEN NoMatch
     ELSE LET i == CHOOSE x \in starts : \A y \in starts : x <= y
              from == i + Len(PatternPrefix)
              hs == DocTypeHyphens(name, from)
              j == CHOOSE x \in hs : \A y \in hs : x <= y
          IN [found |-> TRUE,
              subject |-> SubSeq(name, from, j - 1),
              docType |-> SubSeq(name, j + 1, j + 2)]

\* The functions return null for a name they cannot read: <<>> here.
extractSubjectFromFilename(filename) ==
  LET nameWithoutExt == NameWithoutExt(filename)
  IN IF Includes(nameWithoutExt, SpecialCase)
     THEN SubSeq(SpecialCase, 1, 5)
     ELSE IF Match(nameWithoutExt).found THEN Match(nameWithoutExt).subject ELSE <<>>

extractDocTypeFromFilename(filename) ==
  LET nameWithoutExt == NameWithoutExt(filename)
  IN IF Includes(nameWithoutExt, SpecialCase)
     THEN Jeongdap
     ELSE IF Match(nameWithoutExt).found THEN Match(nameWithoutExt).docType ELSE <<>>

generateNewFilename(oldFilename) ==
  LET subjectKey == extractSubjectFromFilename(oldFilename)
      docTypeKey == extractDocTypeFromFilename(oldFilename)
  IN IF subjectKey = <<>> \/ docTypeKey = <<>> THEN <<>>
     ELSE IF ~\E e \in SUBJECT_MAPPINGS : e.key = subjectKey THEN <<>>
     ELSE IF ~\E e \in DOC_TYPE_MAPPINGS : e.key = docTypeKey THEN <<>>
     ELSE LET subjectInfo == CHOOSE e \in SUBJECT_MAPPINGS : e.key = subjectKey
              docType == (CHOOSE e \in DOC_TYPE_MAPPINGS : e.key = docTypeKey).docType
          IN Join(<<GRADE_LEVEL, subjectInfo.category, subjectInfo.subject,
                    subjectInfo.selection, EXAM_TYPE, EXAM_YEAR, EXAM_MONTH, SOURCE,
                    docType>>, <<Underscore>>) \o DotPdf

\* answer.toLowerCase() for the letters of the prompt's answers.
ToLowerCase(s) == [i \in 1..Len(s) |-> IF s[i] >= 65 /\ s[i] <= 90 THEN s[i] + 32 ELSE s[i]]

\* fs.renameSync(old, new) in a directory: the file takes the new name and
\* replaces the file that had it.
RenameSync(dir, old, new) ==
  LET f == CHOOSE x \in dir : x.name = old
  IN { x \in dir : x.name # old /\ x.name # new } \cup {[name |-> new, body |-> f.body]}

\* The names a directory may hold.
RenamePool ==
  { PatternPrefix \o <<44397, 50612, 45, 47928, 51228, 46, 112, 100, 102>>,
    PatternPrefix \o <<44397, 50612, 45, 51221, 45813, 46, 112, 100, 102>>,
    PatternPrefix \o <<44397, 50612, 45, 45813, 51648, 46, 112, 100, 102>>,
    PatternPrefix \o <<49373, 47749, 44284, 54617, 50, 45, 51221, 45813, 45, 49, 46, 112,
        100, 102>>,
    PatternPrefix \o <<52404, 50977, 45, 47928, 51228, 46, 112, 100, 102>>,
    <<110, 111, 116, 101, 115, 46, 112, 100, 102>>,
    <<114, 101, 97, 100, 109, 101, 46, 116, 120, 116>> }

Answers == { <<121>>, <<89>>, <<110>>, <<>>, <<121, 101, 115>> }

\* The current directory when the script starts: each file holds its own bytes.
RenameInit ==
  /\ pc = "readdir"
  /\ \E names \in SUBSET RenamePool : cwd = { [name |-> n, body |-> n] : n \in names }
  /\ oldFiles = <<>>
  /\ answer = <<>>
  /\ catalog = <<>>
  /\ ParserIdle
  /\ ApiIdle
  /\ UploadIdle
  /\ CleanupIdle
  /\ SubmissionIdle
  /\ ClientIdle
  /\ ThumbnailIdle

renameOtherVars == <<catalog, parserVars, apiVars, blobs, dataDir, pdfFiles, successCount,
                     skipped, storagePath, nextId, uploadedIds, storeFailed, rowsAtStart, runs,
                     lastFix, cleanupVars, submissionVars, clientVars, thumbnailVars>>

\* renameFiles: the PDF names of the directory are read and sorted; the
\* planned renames are printed.
ReadDir ==
  /\ pc = "readdir"
  /\ oldFiles' = KeysInOrder({ f.name : f \in { x \in cwd : EndsWith(x.name, DotPdf) } })
  /\ pc' = "prompt"
  /\ UNCHANGED <<cwd, answer, idx, faults, renameOtherVars>>

\* askForConfirmation: anything but y or Y cancels.
AskForConfirmation ==
  /\ pc = "prompt"
  /\ \E a \in Answers :
       /\ answer' = a
       /\ pc' = IF ToLowerCase(a) = <<121>> THEN "rename" ELSE "cancelled"
  /\ idx' = 1
  /\ UNCHANGED <<cwd, oldFiles, faults, renameOtherVars>>

\* One turn of the renaming loop: a name without a new name is skipped; a
\* rename that fails is logged.
RenameFile ==
  /\ pc = "rename"
  /\ idx <= Len(oldFiles)
  /\ LET oldFilename == oldFiles[idx]
         newFilename == generateNewFilename(oldFilename)
     IN IF newFilename = <<>> \/ ~\E f \in cwd : f.name = oldFilename
        THEN UNCHANGED <<cwd, faults>>
        ELSE \E ok \in BOOLEAN :
               IF ok
               THEN /\ cwd' = RenameSync(cwd, oldFilename, newFilename)
                    /\ UNCHANGED faults
               ELSE /\ faults < MaxFaults
                    /\ faults' = faults + 1
                    /\ UNCHANGED cwd
  /\ idx' = idx + 1
  /\ UNCHANGED <<pc, oldFiles, answer, renameOtherVars>>

RenameCompleted ==
  /\ pc = "rename"
  /\ idx > Len(oldFiles)
  /\ pc' = "done"
  /\ UNCHANGED <<cwd, oldFiles, answer, idx, faults, renameOtherVars>>

RenameNext == ReadDir \/ AskForConfirmation \/ RenameFile \/ RenameCompleted

SpecRename == RenameInit /\ [][RenameNext]_vars

(***************************************************************************)
(* Properties of the filename parser.                                      *)
(***************************************************************************)
RecordFields == {"grade_level", "category", "subject", "selection", "exam_type",
                 "exam_year", "exam_month", "source", "doc_type"}

\* The underscore-delimited fields of a filename carrying the .pdf suffix.
FieldsOf(f) == Split(SubSeq(f, 1, Len(f) - 4))

\* Precomposed form: no leading consonant is followed by a vowel jamo and no
\* open syllable by a trailing consonant jamo, and no syllable is spelled
\* with jamo that a single code unit could carry.
Canonical(s) ==
  \A i \in 1..(Len(s) - 1) :
    /\ ~(IsL(s[i]) /\ IsV(s[i + 1]))
    /\ ~(IsLV(s[i]) /\ IsT(s[i + 1]))
HasUnderscore(s) == \E i \in 1..Len(s) : s[i] = Underscore

\* The reading of the fields that section 4.2 of the specification
\* prescribes (steps 3 and 4), as raw fields.
Reading(parts) ==
  IF Len(parts) = 8 \/ (parts[4] # <<>> /\ parts[4] \in validExamTypes)
  THEN [sel |-> <<>>, type |-> parts[4], year |-> parts[5], month |-> parts[6],
        src |-> parts[7], doc |-> parts[8]]
  ELSE [sel |-> parts[4], type |-> parts[5], year |-> parts[6], month |-> parts[7],
        src |-> parts[8], doc |-> parts[9]]

OutsideVocabulary(parts) ==
  LET r == Reading(parts)
  IN \/ NFC(parts[1]) \notin validGradeLevels
     \/ NFC(parts[2]) \notin validCategories
     \/ NFC(r.type) \notin validExamTypes
     \/ NFC(r.src) \notin validSources
     \/ NFC(r.doc) \notin validDocTypes

\* An optional minus sign followed by one or more decimal digits.
IsIntegerNumeral(s) ==
  LET d == IF s # <<>> /\ Head(s) = Minus THEN Tail(s) ELSE s
  IN d # <<>> /\ \A i \in 1..Len(d) : d[i] >= 48 /\ d[i] <= 57

SameRecord(a, b) == \A f \in RecordFields : a[f] = b[f]

\* A record the naming convention can carry: subject and selection are
\* canonical and free of '_', and the selection is not an exam-type value.
Carriable(r) ==
  /\ Canonical(r.subject) /\ Canonical(r.selection)
  /\ ~HasUnderscore(r.subject) /\ ~HasUnderscore(r.selection)
  /\ r.selection \notin validExamTypes

\* C3 as stated: for every valid metadata record, with any subject and any
\* selection, parsing the filename built from the record recovers the record.
C3_RoundTripAny ==
  (pc = "parsed" /\ rec.ok) => (parsed.ok /\ SameRecord(parsed, rec))

\* C3, amended: the round trip holds for every valid record whose subject and
\* selection are canonical and free of '_' and whose selection is not an
\* exam-type value.
C3_RoundTrip ==
  (pc = "parsed" /\ rec.ok /\ Carriable(rec)) =>
    (parsed.ok /\ SameRecord(parsed, rec))

C3_Witness ==
  /\ pc = "parsed" /\ rec.ok /\ Carriable(rec)
  /\ rec.selection # <<>> /\ rec.exam_year < 0
  /\ parsed.ok /\ parsed.selection = rec.selection

\* C4: a filename without the .pdf suffix, or with fewer than 8 or more than
\* 9 fields, or with a grade_level, category, exam_type, source or doc_type
\* outside its vocabulary, is rejected with the null result and no record.
C4_Rejects ==
  pc = "parsed" =>
    /\ (\/ ~EndsWith(fname, DotPdf)
        \/ Len(FieldsOf(fname)) < 8
        \/ Len(FieldsOf(fname)) > 9
        \/ OutsideVocabulary(FieldsOf(fname))) => parsed = Null
    /\ (parsed = Null \/ (parsed.ok /\ DOMAIN parsed = RecordFields \cup {"ok", "filename"}))

C4_Witness ==
  /\ pc = "parsed" /\ rec = NoRec /\ EndsWith(fname, DotPdf)
  /\ Len(FieldsOf(fname)) = 8
  /\ LET parts == FieldsOf(fname)
     IN /\ NFC(parts[1]) \in validGradeLevels /\ NFC(parts[2]) \in validCategories
        /\ NFC(parts[4]) \in validExamTypes /\ NFC(parts[7]) \in validSources
        /\ IsIntegerNumeral(parts[5]) /\ IsIntegerNumeral(parts[6])
        /\ parts[8] \notin validDocTypes
  /\ parsed = Null

\* C5: in a 9-field name with a non-empty field 3, a field 3 that is an
\* exam-type value is read as the exam type (no selection, the rest shifted
\* by one); any other field 3 is the selection and fields 4 to 8 follow.
C5_Field3Reading ==
  (pc = "parsed" /\ EndsWith(fname, DotPdf) /\ Len(FieldsOf(fname)) = 9
     /\ FieldsOf(fname)[4] # <<>>) =>
    LET parts == FieldsOf(fname)
        e == IF parts[4] \in validExamTypes
             THEN [sel |-> <<>>, type |-> parts[4], year |-> parts[5],
                   month |-> parts[6], src |-> parts[7], doc |-> parts[8]]
             ELSE [sel |-> parts[4], type |-> parts[5], year |-> parts[6],
                   month |-> parts[7], src |-> parts[8], doc |-> parts[9]]
        acceptable == /\ NFC(parts[1]) \in validGradeLevels
                      /\ NFC(parts[2]) \in validCategories
                      /\ NFC(e.type) \in validExamTypes
                      /\ NFC(e.src) \in validSources
                      /\ NFC(e.doc) \in validDocTypes
                      /\ ~parseInt(e.year).nan /\ ~parseInt(e.month).nan
    IN /\ parsed.ok <=> acceptable
       /\ parsed.ok =>
            /\ parsed.selection = NFC(e.sel)
            /\ parsed.exam_type = NFC(e.type)
            /\ parsed.exam_year = parseInt(e.year).val
            /\ parsed.exam_month = parseInt(e.month).val
            /\ parsed.source = NFC(e.src)
            /\ parsed.doc_type = NFC(e.doc)

C5_Witness ==
  /\ pc = "parsed" /\ EndsWith(fname, DotPdf) /\ Len(FieldsOf(fname)) = 9
  /\ FieldsOf(fname)[4] \in validExamTypes
  /\ parsed.ok /\ parsed.selection = <<>> /\ parsed.exam_type = FieldsOf(fname)[4]

\* C6: a record is returned only when the year field and the month field are
\* integer numerals, and the record carries their values.
C6_IntegerNumeralsOnly ==
  (pc = "parsed" /\ parsed.ok) =>
    LET r == Reading(FieldsOf(fname))
    IN /\ IsIntegerNumeral(r.year) /\ IsIntegerNumeral(r.month)
       /\ parsed.exam_year = parseInt(r.year).val
       /\ parsed.exam_month = parseInt(r.month).val

(***************************************************************************)
(* Properties of the catalog service and of the controller.                *)
(***************************************************************************)
Range(seq) == { seq[i] : i \in 1..Len(seq) }
IdsOf(rows) == { rows[i].id : i \in 1..Len(rows) }
NumbersOf(vals) == { vals[i].val : i \in { j \in 1..Len(vals) : ~vals[j].nan } }
NormalizedOf(vals) == { NFC(vals[i]) : i \in 1..Len(vals) }

CanonicalCatalog ==
  \A i \in 1..Len(catalog) : \A f \in TextFields : Canonical(catalog[i][f])

\* The documents C1 describes: a field that is present constrains the
\* document's value to the members of the field's set, as given.
MatchesAsGiven(r, filters) ==
  /\ filters.grade_levels.present => r.grade_level \in Range(filters.grade_levels.vals)
  /\ filters.categories.present => r.category \in Range(filters.categories.vals)
  /\ filters.exam_years.present => r.exam_year \in NumbersOf(filters.exam_years.vals)
  /\ filters.exam_months.present => r.exam_month \in NumbersOf(filters.exam_months.vals)

\* The documents the amended C1 describes: a field constrains when it is
\* present and not empty, and text is compared with the normalized values.
Constrains(field) == field.present /\ field.vals # <<>>

MatchesNormalized(r, filters) ==
  /\ Constrains(filters.grade_levels) =>
       r.grade_level \in NormalizedOf(filters.grade_levels.vals)
  /\ Constrains(filters.categories) =>
       r.category \in NormalizedOf(filters.categories.vals)
  /\ Constrains(filters.exam_years) => r.exam_year \in NumbersOf(filters.exam_years.vals)
  /\ Constrains(filters.exam_months) => r.exam_month \in NumbersOf(filters.exam_months.vals)

\* C1 as stated: getDocumentsWithFilters returns exactly the documents whose
\* value is a member of the set of every field present; absent fields do not
\* constrain; an empty result is a success.
C1_FilterMembership ==
  (pc = "responded" /\ call.route = "svc.filtered" /\ call.store = "ok") =>
    /\ call.result.status = "ok"
    /\ IdsOf(call.result.data) =
         { catalog[i].id : i \in { j \in 1..Len(catalog) :
                                     MatchesAsGiven(catalog[j], call.filters) } }

\* C1, amended: the documents returned are exactly those that, for every
\* field present and not empty, hold one of the field's values, the textual
\* values taken in normalized form; an absent or empty field does not
\* constrain; an empty result is a success.
C1_FilterSemantics ==
  (pc = "responded" /\ call.route = "svc.filtered" /\ call.store = "ok") =>
    /\ call.result.status = "ok"
    /\ Range(call.result.data) =
         { catalog[i] : i \in { j \in 1..Len(catalog) :
                                  MatchesNormalized(catalog[j], call.filters) } }
    /\ Len(call.result.data) = Cardinality(IdsOf(call.result.data))

C1_Witness ==
  /\ pc = "responded" /\ call.route = "svc.filtered" /\ call.store = "ok"
  /\ call.filters.grade_levels = Given(<<Go3>>)
  /\ call.filters.categories = Given(<<Gugeo, Suhak>>)
  /\ ~call.filters.exam_years.present /\ ~call.filters.exam_months.present
  /\ IdsOf(catalog) = {1, 3, 4}
  /\ IdsOf(call.result.data) = {1, 3}

\* The filter structure with every textual value precomposed / decomposed.
MapText(field, F(_)) ==
  [present |-> field.present, vals |-> [i \in 1..Len(field.vals) |-> F(field.vals[i])]]

FiltersIn(filters, F(_)) ==
  [filters EXCEPT !.grade_levels = MapText(filters.grade_levels, F),
                  !.categories = MapText(filters.categories, F)]

\* C2: on a canonical catalog, the filtered query and the lookups by
\* category and by subject return the same documents for a value in
\* decomposed form as for its precomposed equivalent.
C2_EquivalentForms ==
  (pc = "responded" /\ CanonicalCatalog /\ call.store = "ok") =>
    /\ call.route = "svc.filtered" =>
         /\ call.result = getDocumentsWithFilters(catalog, FiltersIn(call.filters, NFC), "ok")
         /\ call.result = getDocumentsWithFilters(catalog, FiltersIn(call.filters, Decompose), "ok")
    /\ call.route = "svc.category" =>
         /\ call.result = getDocumentsByCategory(catalog, NFC(call.arg), "ok")
         /\ call.result = getDocumentsByCategory(catalog, Decompose(call.arg), "ok")
    /\ call.route = "svc.subject" =>
         /\ call.result = getDocumentsBySubject(catalog, NFC(call.arg), "ok")
         /\ call.result = getDocumentsBySubject(catalog, Decompose(call.arg), "ok")

C2_Witness ==
  /\ pc = "responded" /\ CanonicalCatalog /\ call.store = "ok"
  /\ call.route = "svc.category"
  /\ ~Canonical(call.arg)
  /\ call.result.data # <<>>
  /\ \A i \in 1..Len(call.result.data) : call.result.data[i].category = NFC(call.arg)

ListRoutes == {"all", "filtered", "categories.list", "subjects.list",
               "debug.categories", "category", "subject"}
ControllerRoutes == ListRoutes \cup {"available", "id"}

EmptyOfShape(route) ==
  IF route = "available"
  THEN [gradeLevels |-> <<>>, categories |-> <<>>, examYears |-> <<>>, examMonths |-> <<>>]
  ELSE IF route = "id" THEN NullDocument
  ELSE <<>>

\* C10: on a failure of the service call every route answers success=false
\* with the empty value of its shape as data and count 0 (where the route
\* has a count), and with nothing that tells the kinds of error apart.
C10_UniformFailureEnvelope ==
  (pc = "responded" /\ call.route \in ControllerRoutes /\ ~resp.success) =>
    /\ DOMAIN resp \subseteq {"success", "data", "count"}
    /\ "count" \in DOMAIN resp => resp.count = 0
    /\ resp.data = EmptyOfShape(call.route)

(***************************************************************************)
(* Properties of the upload and repair scripts.                            *)
(***************************************************************************)
UploadedRows == { i \in 1..Len(catalog) : catalog[i].id \in uploadedIds }

\* C7: in every state reached by upload runs and repair runs, every
\* Korean-text field (title, grade_level, category, subject, selection,
\* exam_type, source) of every row written by the upload pipeline is in
\* precomposed form, whatever the form of the source filename.
C7_UploadedTextCanonical ==
  \A i \in UploadedRows : \A f \in TextFields : Canonical(catalog[i][f])

\* A row uploaded from a filename that is not in precomposed form, in a
\* table that a repair run has gone over after the upload.
C7_Witness ==
  /\ \E i \in UploadedRows : ~Canonical(catalog[i].filename)
  /\ Len(catalog) >= 1
  /\ lastFix.checked = Len(catalog)

Unparseable == { i \in 1..Len(pdfFiles) : parseFilename(Basename(pdfFiles[i])) = Null }

\* C9: a finished upload run over a batch with exactly one unparseable
\* filename among N valid ones, in which the stores accepted every write,
\* has gone through every file, counted N successes, inserted N rows and
\* skipped once.
C9_BatchResilience ==
  (pc = "done" /\ ~storeFailed /\ Cardinality(Unparseable) = 1) =>
    /\ idx = Len(pdfFiles) + 1
    /\ successCount = Len(pdfFiles) - 1
    /\ skipped = 1
    /\ Len(catalog) = rowsAtStart + Len(pdfFiles) - 1

\* A finished run over three files of which the first is the unparseable one.
C9_Witness ==
  /\ pc = "done"
  /\ ~storeFailed
  /\ Len(pdfFiles) = 3
  /\ Unparseable = {1}
  /\ lastFix = NoFix

(***************************************************************************)
(* Properties of the controller's decoding and of the lookups.             *)
(***************************************************************************)
NumericFields == {"exam_years", "exam_months"}

\* C11: the numeric filter lists the filtered route hands to the service
\* hold only integers (the entries of the query parameter that do not parse
\* are dropped), and the request is answered when the store answers.
C11_UnparseableDropped ==
  (pc = "responded" /\ call.route = "filtered") =>
    /\ \A f \in NumericFields :
         \A i \in 1..Len(call.filters[f].vals) : ~call.filters[f].vals[i].nan
    /\ call.store = "ok" => resp.success

\* Whether a lookup finds a row.
FoundById == \E i \in 1..Len(catalog) : catalog[i].id = call.arg
FoundByColumn(col) == \E i \in 1..Len(catalog) : catalog[i][col] = NFC(call.arg)

\* C12 as stated: a lookup by id, by category or by subject that matches no
\* document gives a not-found outcome, not the success with an empty list
\* that a filtered query without a match gives.
C12_NotFoundDistinguished ==
  (pc = "responded" /\ call.store = "ok") =>
    /\ (call.route = "id" /\ ~FoundById) => ~resp.success
    /\ (call.route = "category" /\ ~FoundByColumn("category")) => ~resp.success
    /\ (call.route = "subject" /\ ~FoundByColumn("subject")) => ~resp.success
    /\ call.route = "filtered" => resp.success

\* C12, amended: a lookup by id that matches no document is answered as a
\* failure with a null document, and one that matches with the document; a
\* lookup by category or by subject that matches no document is answered,
\* like a filtered query without a match, as a success with an empty list.
C12_LookupOutcomes ==
  (pc = "responded" /\ call.store = "ok") =>
    /\ call.route = "id" =>
         IF FoundById
         THEN resp.success /\ resp.data.id = call.arg
         ELSE resp = [success |-> FALSE, data |-> NullDocument]
    /\ call.route \in {"category", "subject"} =>
         /\ resp.success
         /\ resp.count = Len(resp.data)
         /\ ~FoundByColumn(call.route) => resp.data = <<>>
         /\ FoundByColumn(call.route) => resp.data # <<>>
    /\ call.route = "filtered" =>
         /\ resp.success
         /\ resp.count = Len(resp.data)

\* A lookup by id that finds nothing in a table that is not empty.
C12_Witness ==
  /\ pc = "responded" /\ call.store = "ok"
  /\ call.route = "id"
  /\ catalog # <<>>
  /\ ~FoundById
  /\ ~resp.success

(***************************************************************************)
(* Properties of the rows and blobs the upload script leaves.              *)
(***************************************************************************)
\* C13: the storage_path of every row written by the upload pipeline is
\* determined by the row's id alone: it is documents/{id}.pdf, the key the
\* thumbnail generator downloads the document's PDF from.
C13_StoragePathMirrorsId ==
  \A i \in UploadedRows : catalog[i].storage_path = pdfS3Key(catalog[i].id)

(***************************************************************************)
(* Properties of the cleanup script.                                       *)
(***************************************************************************)
Confirmed == \E i \in 1..Len(argv) : argv[i] = "--confirm"

\* C14: in a run of the cleanup script whose command line does not hold
\* --confirm, no step changes the documents table or the bucket.
C14_NoDeletionWithoutConfirm ==
  [][~Confirmed => (catalog' = catalog /\ blobs' = blobs)]_vars

\* A run without the flag has ended with rows and objects in place.
C14_Witness ==
  /\ pc = "exit0"
  /\ configured
  /\ ~Confirmed
  /\ Len(argv) = 3
  /\ Len(catalog) >= 2
  /\ Cardinality(blobs) >= 2

(***************************************************************************)
(* Properties of empty filter fields.                                      *)
(***************************************************************************)
\* A filter structure with its empty lists left out.
OmitEmpty(filters) ==
  [f \in DOMAIN filters |-> IF filters[f].vals = <<>> THEN Absent ELSE filters[f]]

\* A query with its empty parameters left out.
OmitEmptyParams(q) ==
  [f \in DOMAIN q |-> IF q[f].val = <<>> THEN NoParam ELSE q[f]]

\* C15: a filter field given as an empty list, or a query parameter given
\* empty, is treated as one that was left out: the answer is that of the
\* request without the field, and when every field is empty or left out
\* every document is returned.
C15_EmptyIsUnconstrained ==
  (pc = "responded" /\ call.store = "ok") =>
    /\ call.route = "svc.filtered" =>
         /\ call.result = getDocumentsWithFilters(catalog, OmitEmpty(call.filters), "ok")
         /\ (\A f \in DOMAIN call.filters : call.filters[f].vals = <<>>) =>
              Range(call.result.data) = Range(catalog)
    /\ call.route = "filtered" =>
         /\ resp = RouteGetDocumentsWithFilters(catalog, OmitEmptyParams(call.query), "ok")
         /\ (\A f \in DOMAIN call.query : call.query[f].val = <<>>) =>
              Range(resp.data) = Range(catalog)

\* A call with an empty year list next to a grade filter that selects some
\* documents but not all.
C15_Witness ==
  /\ pc = "responded" /\ call.store = "ok"
  /\ call.route = "svc.filtered"
  /\ call.filters.exam_years = Given(<<>>)
  /\ call.filters.grade_levels = Given(<<Go3>>)
  /\ call.result.data # <<>>
  /\ Len(call.result.data) < Len(catalog)

(***************************************************************************)
(* Properties of the text normalizer.                                      *)
(***************************************************************************)
\* C16: normalizing a normalized text changes nothing, for
\* normalizeKoreanText and for normalizeInput (which trims first), the
\* empty text included; a normalized text does not need normalization.
C16_NormalizeIdempotent ==
  pc = "normalized" =>
    /\ call.route = "normalizeKoreanText" =>
         /\ normalizeKoreanText(call.result) = call.result
         /\ ~needsNormalization(call.result)
    /\ call.route = "normalizeInput" =>
         /\ normalizeInput(call.result) = call.result
         /\ normalizeKoreanText(call.result) = call.result

\* A text with spaces around jamo that compose has been normalized.
C16_Witness ==
  /\ pc = "normalized"
  /\ call.route = "normalizeInput"
  /\ call.arg = <<Space, LBase, VBase>>
  /\ call.result = <<SBase>>

(***************************************************************************)
(* Properties of the title.                                                *)
(***************************************************************************)
\* The fields of a title, the selection only when it is not empty.
TitleParts(r) ==
  <<r.grade_level, r.category, r.subject>>
  \o (IF r.selection # <<>> THEN <<r.selection>> ELSE <<>>)
  \o <<r.exam_type, IntToStr(r.exam_year) \o Nyeon, IntToStr(r.exam_month) \o Wol,
       r.source>>

DoubledSpace(s) == \E i \in 1..(Len(s) - 1) : s[i] = Space /\ s[i + 1] = Space

HasSpace(s) == \E i \in 1..Len(s) : s[i] = Space

C18_ParseAgreesWithCanonical ==
  pc = "parsed" =>
    LET other == parseFilename(NFC(fname))
    IN IF parsed = Null THEN other = Null
       ELSE other # Null /\ SameRecord(parsed, other)

\* ---- C19 ----
\* The name of a record written with the selection left out: 8 fields.
EightFieldName(r) ==
  Join(<<r.grade_level, r.category, r.subject, r.exam_type,
         IntToStr(r.exam_year), IntToStr(r.exam_month), r.source,
         r.doc_type>>, <<Underscore>>) \o DotPdf

SameParse(a, b) ==
  /\ a # Null
  /\ b # Null
  /\ SameRecord(a, b)
  /\ a.selection = <<>>

\* C19 as stated: for every record without a selection, the 8-field name and
\* the 9-field name with an empty selection slot parse to records that agree in
\* every field but the filename, with an empty selection.
C19_SameParseAny ==
  (pc = "parsed" /\ rec.ok /\ rec.selection = <<>>) =>
    SameParse(parsed, parseFilename(EightFieldName(rec)))

\* C19, amended: the two spellings parse alike, with an empty selection, for
\* every record without a selection whose subject holds no '_'.
C19_SameParse ==
  (pc = "parsed" /\ rec.ok /\ rec.selection = <<>> /\ ~HasUnderscore(rec.subject)) =>
    SameParse(parsed, parseFilename(EightFieldName(rec)))

C19_Witness ==
  /\ pc = "parsed"
  /\ rec.ok
  /\ rec.selection = <<>>
  /\ rec.subject = Decompose(Giha)
  /\ Len(FieldsOf(fname)) = 9
  /\ FieldsOf(fname)[4] = <<>>
  /\ Len(FieldsOf(EightFieldName(rec))) = 8
  /\ parsed # Null
  /\ parsed.subject = Giha
  /\ parseFilename(EightFieldName(rec)).filename # parsed.filename

\* ---- C20 ----
AllTextCanonical(rows) ==
  \A i \in 1..Len(rows) : \A f \in TextFields : Canonical(rows[i][f])

\* What one run of the repair may do to the table.
RepairWritesOnlyWhatNeedsIt ==
  /\ Len(catalog') = Len(catalog)
  /\ \A i \in 1..Len(catalog) :
       /\ DOMAIN catalog'[i] = DOMAIN catalog[i]
       /\ \A f \in DOMAIN catalog[i] :
            catalog'[i][f] # catalog[i][f] =>
              /\ f \in TextFields
              /\ needsNormalization(catalog[i][f])
              /\ catalog'[i][f] = normalizeKoreanText(catalog[i][f])

\* C20: a run of fixAllDocuments over a table whose text is canonical issues no
\* update; after a run in which every update succeeded every checked field of
\* every row is canonical, so that the next run has nothing to write; and a run
\* changes only fields for which needsNormalization is true, so that id,
\* filename, exam_year, exam_month and the canonical fields stay as they were.
C20_RepairFixedPoint ==
  [][FixAllDocuments =>
       /\ AllTextCanonical(catalog) =>
            (lastFix'.withIssues = 0 /\ lastFix'.fixed = 0 /\ catalog' = catalog)
       /\ lastFix'.fixed = lastFix'.withIssues =>
            /\ AllTextCanonical(catalog')
            /\ \A i \in 1..Len(catalog') : \A f \in TextFields :
                 ~needsNormalization(catalog'[i][f])
       /\ RepairWritesOnlyWhatNeedsIt
       /\ lastFix'.checked = Len(catalog)
       /\ lastFix'.withIssues =
            Cardinality({ i \in 1..Len(catalog) : \E f \in TextFields :
                            needsNormalization(catalog[i][f]) })]_vars

\* A first run rewrote the decomposed row and left its filename alone; a second
\* run over the repaired table found nothing to write.
C20_Witness ==
  /\ runs = 2
  /\ Len(catalog) = 1
  /\ catalog[1].id = RowPool[5].id
  /\ catalog[1].subject = Giha
  /\ catalog[1].subject # RowPool[5].subject
  /\ catalog[1].filename = RowPool[5].filename
  /\ ~Canonical(catalog[1].filename)
  /\ lastFix = [checked |-> 1, withIssues |-> 0, fixed |-> 0]

\* ---- C21 ----
HasBlobAt(key) == \E b \in blobs : b.key = key

\* The steps of one file come in order: what is put and what is written is the
\* path generated from the parsed, validated and normalized record.
FileStepsInOrder ==
  pc \in {"s3", "db"} =>
    /\ parsed # Null
    /\ parsed = parseFilename(fname)
    /\ \A f \in {"grade_level", "category", "subject", "selection", "exam_type", "source"} :
         Canonical(parsed[f])
    /\ storagePath = generateStoragePath(parsed)
    /\ (pc = "db" => HasBlobAt(storagePath))

C22_StoragePathHasBlob ==
  \A i \in 1..Len(submissions) :
    submissions[i].storage_path # <<>> => HasBlobAt(submissions[i].storage_path)

\* ---- C29 ----
\* The row of the submission in process, once it has been inserted.
InsertedRow == submissions[Len(submissions)]

\* C29: the persisted score of a submission equals the supplied score whenever
\* a score was supplied, 0 included, and is null only when none was supplied.
C29_ScorePersisted ==
  (pc # "processSubmission" /\ submissionId # 0 /\ Len(submissions) > 0
   /\ InsertedRow.id = submissionId) =>
    /\ data.score.given => InsertedRow.score = [null |-> FALSE, val |-> data.score.val]
    /\ InsertedRow.score.null => ~data.score.given

\* ---- C23 ----
BlobKeys(bs) == { b.key : b \in bs }

\* The keys of the chunk that starts after the first `from` listed keys.
ChunkKeys(from) ==
  { objects[j] : j \in { k \in 1..Len(objects) : from < k /\ k <= from + 1000 } }

CeilDiv(n, d) == (n + d - 1) \div d

\* While the loop runs, the chunks before batchStart are done and counted and
\* the keys after it are untouched: every listed key falls into one chunk.
ChunksInTurn ==
  pc = "deleteBatch" =>
    /\ batchStart % 1000 = 0
    /\ batchStart < Len(objects) + 1000
    /\ deletedCount = (IF batchStart < Len(objects) THEN batchStart ELSE Len(objects))
    /\ BlobKeys(blobs) = { objects[j] : j \in { k \in 1..Len(objects) : k > batchStart } }

\* A turn of the loop deletes keys of its own chunk only, at most 1000.
OneChunkPerTurn ==
  (pc = "deleteBatch" /\ blobs' # blobs) =>
    /\ BlobKeys(blobs) \ BlobKeys(blobs') \subseteq ChunkKeys(batchStart)
    /\ Cardinality(BlobKeys(blobs) \ BlobKeys(blobs')) <= 1000
    /\ (pc' = "deleteBatch" =>
          /\ BlobKeys(blobs) \ BlobKeys(blobs') = ChunkKeys(batchStart)
          /\ batchStart' = batchStart + 1000
          /\ deletedCount' = deletedCount + Cardinality(ChunkKeys(batchStart)))

\* C23: deleteFromS3 deletes the listed keys in chunks of at most 1000 keys,
\* one chunk after the other, every listed key in exactly one chunk, and the
\* loop ends after ceil(n/1000) chunks for n listed keys.
C23_ChunkedDeletion ==
  /\ [](ChunksInTurn)
  /\ [][OneChunkPerTurn]_vars
  /\ [][(pc = "deleteBatch" /\ pc' = "summary" /\ blobs' = blobs /\ s3Deleted' # 0) =>
          /\ batchStart = 1000 * CeilDiv(Len(objects), 1000)
          /\ s3Deleted' = Len(objects)
          /\ blobs = {}]_vars
  /\ <>(pc = "exit0")

\* 2001 listed keys were deleted in three chunks.
C23_Witness ==
  /\ pc = "exit0"
  /\ Len(objects) = 2001
  /\ batchStart = 3000
  /\ deletedCount = 2001
  /\ s3Deleted = 2001
  /\ blobs = {}

\* ---- C28 ----
\* The listed objects that are no longer in the bucket.
ActuallyDeleted == { i \in 1..Len(objects) : ~HasBlobAt(objects[i]) }

\* C28: the count deleteFromS3 returns, which the summary reports, is the
\* number of objects the call deleted from the bucket, whatever its outcome.
C28_CountIsDeleted ==
  pc \in {"summary", "exit0"} => s3Deleted = Cardinality(ActuallyDeleted)

\* ---- C25 ----
LastField(f) == FieldsOf(f)[Len(FieldsOf(f))]

\* C25: every field of an accepted filename is accounted for: the record's
\* doc_type is the last underscore-delimited field of the name.
C25_LastFieldIsDocType ==
  (pc = "parsed" /\ parsed # Null) => parsed.doc_type = NFC(LastField(fname))

\* ---- C26 ----
\* C26: whatever has been uploaded, once or more than once, no two Document
\* rows share a storage_path.
C26_StoragePathsDistinct ==
  \A i, j \in 1..Len(catalog) :
    i # j => catalog[i].storage_path # catalog[j].storage_path

\* ---- C24 ----
CreatedBy(fn) == { c \in clients : c.by = fn }

\* C24: the connection handle is reused: whatever the sequence of calls,
\* getSupabaseClient creates at most one client and every call that returns
\* returns that client; SupabaseService.getClient returns, on every request,
\* the one client onModuleInit created; neither handle is ever replaced.
C24_HandleReused ==
  /\ [](/\ Cardinality(CreatedBy("getSupabaseClient")) <= 1
        /\ Cardinality(CreatedBy("onModuleInit")) <= 1
        /\ (call.route = "getSupabaseClient" /\ ~call.threw) =>
             CreatedBy("getSupabaseClient") =
               {[id |-> call.result, by |-> "getSupabaseClient"]}
        /\ call.route = "getClient" =>
             CreatedBy("onModuleInit") = {[id |-> call.result, by |-> "onModuleInit"]})
  /\ [][/\ supabaseClient # 0 => supabaseClient' = supabaseClient
        /\ supabase # 0 => supabase' = supabase]_vars

\* getSupabaseClient and getClient have each been called more than once.
C24_Witness ==
  /\ idx = MaxCalls
  /\ pc = "running"
  /\ call.route = "getSupabaseClient"
  /\ ~call.threw
  /\ call.result = supabaseClient
  /\ supabaseClient # supabase
  /\ Cardinality(clients) = 3
  /\ nextId = 13

\* ---- C27 ----
\* processDocument has returned for the document in process.
ProcessDocumentReturned == pc \in {"loop", "done"} /\ document # 0

\* C27: a document that had a thumbnail when processDocument was called has
\* one at thumbnails/{id}.png when it returns, whatever it returns.
C27_ThumbnailKept ==
  (ProcessDocumentReturned /\ HasKey(blobsAtStart, thumbnailS3Key(document))) =>
    HasKey(blobs, thumbnailS3Key(document))

\* ---- C30 ----
PdfCount(dir) == Cardinality({ f \in dir : EndsWith(f.name, DotPdf) })

\* C30: no two files of the directory get the same new name, and a confirmed
\* run loses no file: the directory holds as many PDF files after it as before.
C30_RenameLosesNoFile ==
  /\ pc # "readdir" =>
       \A i, j \in 1..Len(oldFiles) :
         (i # j /\ generateNewFilename(oldFiles[i]) # <<>>) =>
           generateNewFilename(oldFiles[i]) # generateNewFilename(oldFiles[j])
  /\ pc = "done" => PdfCount(cwd) = Len(oldFiles)

===========================================================================
